---- MODULE Spec2Model ----
(***************************************************************************)
(* Wiki.js MCP server: the seven tool handlers (src/src/tools), the        *)
(* GraphQL client they call (src/src/services/client.ts), the response     *)
(* envelope helpers (services/error-handler.ts) and the remote wiki the    *)
(* client talks to.                                                        *)
(*                                                                         *)
(* Text is kept run-length encoded: a string is a sequence of segments     *)
(* [c, v, n], n >= 1 copies of the character c, so that page bodies of     *)
(* CHARACTER_LIMIT characters and more are ordinary values.  The page      *)
(* listing is kept the same way: a run [id, n, ...] stands for n           *)
(* consecutive listing entries with ids id .. id+n-1.                      *)
(***************************************************************************)
EXTENDS Integers, Sequences, FiniteSets, TLC

\* ------------------------------------------------------------ constants.ts
CHARACTER_LIMIT == 100000
DEFAULT_PAGE_LIMIT == 50
MAX_PAGE_LIMIT == 200
\* the limit getAllPages passes to listPages
ALL_PAGES_LIMIT == 10000

\* ------------------------------------------------------------ JS values
\* undefined, null and a present value are told apart throughout
Undefined == [t |-> "undefined"]
Null == [t |-> "null"]
Some(x) == [t |-> "some", v |-> x]
IsSome(o) == o.t = "some"
\* the number x + 0.5, and whether a number has a fractional part
Half(x) == [t |-> "some", v |-> x, half |-> TRUE]
IsHalf(o) == "half" \in DOMAIN o
\* a ?? b
Coalesce(a, b) == IF a.t = "some" THEN a ELSE b

\* ------------------------------------------------------------ strings
Seg(c, v, n) == [c |-> c, v |-> v, n |-> n]
PlainChars == {"a", "b", "d", "e", "n", "t", "x", "y", "z"}
\* c.repeat(n)
Rep(c, n) == IF n <= 0 THEN <<>> ELSE <<Seg(c, 0, n)>>

RECURSIVE StrLen(_)
\* s.length
StrLen(s) == IF s = <<>> THEN 0 ELSE Head(s).n + StrLen(Tail(s))

\* s + t
Concat(s, t) ==
  IF s = <<>> THEN t
  ELSE IF t = <<>> THEN s
  ELSE LET a == s[Len(s)]
           b == t[1]
       IN IF a.c = b.c /\ a.c \in PlainChars
            THEN SubSeq(s, 1, Len(s) - 1) \o <<Seg(a.c, 0, a.n + b.n)>> \o Tail(t)
            ELSE s \o t

RECURSIVE Substring0(_, _)
\* s.substring(0, k)
Substring0(s, k) ==
  IF k <= 0 \/ s = <<>> THEN <<>>
  ELSE IF Head(s).n <= k
    THEN <<Head(s)>> \o Substring0(Tail(s), k - Head(s).n)
    ELSE <<Seg(Head(s).c, Head(s).v, k)>>

RECURSIVE Digits(_)
\* the number of characters of `${n}`
Digits(n) == IF n < 10 THEN 1 ELSE 1 + Digits(n \div 10)

\* `\n\n[Content truncated. Original length: ${len} chars. Use path-based access for full content.]`
NoticeById(len) == <<Seg("noticeById", len, 39 + Digits(len) + 48)>>
\* `\n\n[Content truncated. Original length: ${len} chars]`
NoticeByPath(len) == <<Seg("noticeByPath", len, 39 + Digits(len) + 7)>>

\* getPageById truncating from CHARACTER_LIMIT characters on (>= for >)
TruncateByIdAtLimit(content) ==
  IF IsSome(content) /\ content.v # <<>> /\ StrLen(content.v) >= CHARACTER_LIMIT
    THEN Some(Concat(Substring0(content.v, CHARACTER_LIMIT), NoticeById(StrLen(content.v))))
    ELSE content

\* getPageById, "Truncate content if needed": content is an optional string
TruncateById(content) ==
  IF IsSome(content) /\ content.v # <<>> /\ StrLen(content.v) > CHARACTER_LIMIT
    THEN Some(Concat(Substring0(content.v, CHARACTER_LIMIT), NoticeById(StrLen(content.v))))
    ELSE content

\* getPageByPath, "Truncate content if needed"
TruncateByPath(content) ==
  IF IsSome(content) /\ content.v # <<>> /\ StrLen(content.v) > CHARACTER_LIMIT
    THEN Some(Concat(Substring0(content.v, CHARACTER_LIMIT), NoticeByPath(StrLen(content.v))))
    ELSE content

\* ------------------------------------------------------------ short texts
RECURSIVE Lit(_)
\* the string spelled by a tuple of characters
Lit(cs) == IF cs = <<>> THEN <<>> ELSE Concat(Rep(Head(cs), 1), Lit(Tail(cs)))
En == Lit(<<"e", "n">>)
De == Lit(<<"d", "e">>)
PathA == Lit(<<"a">>)
PathB == Lit(<<"b">>)
PathZ == Lit(<<"z", "z">>)
PathFiller == Lit(<<"x">>)
Min(a, b) == IF a < b THEN a ELSE b

\* ------------------------------------------------------------ the remote wiki
\* The wiki is its page listing, in the order pages.list returns it.  A run
\* with n > 1 stands for n pages that no request of the model addresses.
RECURSIVE ListingLen(_)
\* pages.length
ListingLen(l) == IF l = <<>> THEN 0 ELSE Head(l).n + ListingLen(Tail(l))

RECURSIVE SliceRuns(_, _, _)
\* pages.slice(off, off + lim), for off >= 0
SliceRuns(l, off, lim) ==
  IF l = <<>> \/ lim <= 0 THEN <<>>
  ELSE LET h == Head(l)
       IN IF off >= h.n
            THEN SliceRuns(Tail(l), off - h.n, lim)
            ELSE LET take == Min(h.n - off, lim)
                 IN <<[h EXCEPT !.id = h.id + off, !.n = take]>>
                      \o SliceRuns(Tail(l), 0, lim - take)

\* pages.filter((p) => p.locale === locale)
FilterLocale(l, locale) == SelectSeq(l, LAMBDA p : p.locale = locale)

\* the index of the run holding the page with this id, 0 when there is none
FindById(l, id) ==
  LET hits == {k \in 1..Len(l) : l[k].id <= id /\ id < l[k].id + l[k].n}
  IN IF hits = {} THEN 0 ELSE CHOOSE k \in hits : \A j \in hits : k <= j

\* the index of the page at (path, locale), 0 when there is none
FindByPath(l, path, locale) ==
  LET hits == {k \in 1..Len(l) : l[k].n = 1 /\ l[k].path = path /\ l[k].locale = locale}
  IN IF hits = {} THEN 0 ELSE CHOOSE k \in hits : \A j \in hits : k <= j

\* the fields the single / singleByPath queries select (no tags); content is
\* optional in WikiPage (content?: string)
WikiPage(r, id) ==
  [id |-> id, path |-> r.path, title |-> r.title, description |-> r.description,
   content |-> IF r.hasContent THEN Some(r.content) ELSE Null,
   isPublished |-> r.isPublished, locale |-> r.locale]

\* the fields the list query selects (no content)
WikiPageListItem(r) ==
  [id |-> r.id, n |-> r.n, path |-> r.path, title |-> r.title,
   description |-> r.description, isPublished |-> r.isPublished,
   locale |-> r.locale, contentType |-> "markdown", tags |-> r.tags]

\* pages { single(id: $id) }
RemoteSingle(w, id) ==
  LET k == FindById(w, id) IN IF k = 0 THEN Null ELSE Some(WikiPage(w[k], id))

\* pages { singleByPath(path: $path, locale: $locale) }
RemoteSingleByPath(w, path, locale) ==
  LET k == FindByPath(w, path, locale) IN IF k = 0 THEN Null ELSE Some(WikiPage(w[k], w[k].id))

\* pages { list }
RemoteList(w) == [k \in 1..Len(w) |-> WikiPageListItem(w[k])]

Succeeded == [succeeded |-> TRUE, message |-> "ok"]
Rejected(m) == [succeeded |-> FALSE, message |-> m]

\* pages { update(id: $id, ...) }: the fields of vars that are present replace
\* the stored ones; content and tags left out are cleared by the remote, the
\* other fields left out are kept
RemoteUpdate(w, vars) ==
  LET k == FindById(w, vars.id)
  IN IF k = 0 \/ w[k].n # 1
       THEN [wiki |-> w, responseResult |-> Rejected("This page does not exist.")]
       ELSE [wiki |-> [w EXCEPT ![k] =
                 [@ EXCEPT !.content = IF IsSome(vars.content) THEN vars.content.v ELSE <<>>,
                           !.hasContent = TRUE,
                           !.tags = IF IsSome(vars.tags) THEN vars.tags.v ELSE <<>>,
                           !.title = IF IsSome(vars.title) THEN vars.title.v ELSE @,
                           !.description = IF IsSome(vars.description) THEN vars.description.v ELSE @,
                           !.isPublished = IF IsSome(vars.isPublished) THEN vars.isPublished.v ELSE @]],
             responseResult |-> Succeeded]

\* pages { delete(id: $id) }
RemoteDelete(w, id) ==
  LET k == FindById(w, id)
  IN IF k = 0 \/ w[k].n # 1
       THEN [wiki |-> w, responseResult |-> Rejected("This page does not exist.")]
       ELSE [wiki |-> SubSeq(w, 1, k - 1) \o SubSeq(w, k + 1, Len(w)),
             responseResult |-> Succeeded]

\* pages { move(id: $id, destinationPath: ..., destinationLocale: ...) }
RemoteMove(w, id, destinationPath, destinationLocale) ==
  LET k == FindById(w, id)
  IN IF k = 0 \/ w[k].n # 1
       THEN [wiki |-> w, responseResult |-> Rejected("This page does not exist.")]
       ELSE IF FindByPath(w, destinationPath, destinationLocale) # 0
         THEN [wiki |-> w, responseResult |-> Rejected("Destination page path already exists.")]
         ELSE [wiki |-> [w EXCEPT ![k] = [@ EXCEPT !.path = destinationPath,
                                                     !.locale = destinationLocale]],
               responseResult |-> Succeeded]

RECURSIVE MaxId(_)
MaxId(l) == IF l = <<>> THEN 0
            ELSE LET m == MaxId(Tail(l)) h == Head(l).id + Head(l).n - 1
                 IN IF h > m THEN h ELSE m

\* pages { create(...) }: the page is appended to the listing under a fresh id
RemoteCreate(w, p) ==
  IF FindByPath(w, p.path, p.locale) # 0
    THEN [wiki |-> w, responseResult |-> Rejected("Cannot create this page because an entry already exists at the same path."),
          page |-> Null]
    ELSE LET r == [id |-> MaxId(w) + 1, n |-> 1, path |-> p.path, locale |-> p.locale,
                   title |-> p.title, description |-> p.description, content |-> p.content,
                   hasContent |-> TRUE, isPublished |-> p.isPublished, tags |-> p.tags]
         IN [wiki |-> Append(w, r), responseResult |-> Succeeded,
             page |-> Some([id |-> r.id, path |-> r.path, title |-> r.title])]

\* pages { search(query: $query) }: every page is a hit, in listing order;
\* the remote's totalHits counts `more` hits beyond those it lists
RemoteSearch(w, q, more) ==
  [results |-> [k \in 1..Len(w) |->
                  [id |-> w[k].id, n |-> w[k].n, title |-> w[k].title, path |-> w[k].path,
                   description |-> w[k].description, locale |-> w[k].locale]],
   suggestions |-> <<>>,
   totalHits |-> ListingLen(w) + more]

\* ------------------------------------------------------------ errors and envelopes
\* new Error(message); a message is the sequence of its parts
Error(msg) == [name |-> "Error", message |-> msg]
\* a ZodError with its issues, each [path, message]
ZodError(issues) == [name |-> "ZodError", issues |-> issues]
Issue(path, msg) == [path |-> path, message |-> msg]

Return(x) == [ok |-> TRUE, value |-> x]
Throw(e) == [ok |-> FALSE, error |-> e]

RECURSIVE IssueLines(_)
\* error.issues.map((issue) => `  - ${issue.path.join('.')}: ${issue.message}`).join('\n')
IssueLines(issues) ==
  IF issues = <<>> THEN <<>>
  ELSE <<"\n  - ", Head(issues).path, ": ", Head(issues).message>> \o IssueLines(Tail(issues))

\* handleToolError, "let errorMessage": a ZodError lists its issues, any
\* other Error gives its message
ErrorMessage(error, toolName) ==
  IF error.name = "ZodError"
    THEN <<"Validation error in ", toolName, ":">> \o IssueLines(error.issues)
    ELSE error.message

\* handleToolError without the isError flag
HandleToolErrorNoFlag(error, toolName) ==
  [body |-> [success |-> FALSE, error |-> ErrorMessage(error, toolName), tool |-> toolName],
   isError |-> Undefined]
\* handleToolError(error, toolName)
handleToolError(error, toolName) ==
  [body |-> [success |-> FALSE, error |-> ErrorMessage(error, toolName), tool |-> toolName],
   isError |-> Some(TRUE)]

\* successResponse(data): {success: true, ...data}, no isError
successResponse(data) == [body |-> [success |-> TRUE] @@ data, isError |-> Undefined]

\* ------------------------------------------------------------ WikiJsClient.query
\* What the transport delivers for one request: the timer aborts it, fetch
\* rejects, or a response with a status and a JSON body {data?, errors?}.
RespOk == [aborted |-> FALSE, failed |-> FALSE, ok |-> TRUE, status |-> 200,
           json |-> TRUE, errors |-> FALSE, data |-> TRUE]
RespAborted == [RespOk EXCEPT !.aborted = TRUE]
RespFailed == [RespOk EXCEPT !.failed = TRUE]
RespHttp500 == [RespOk EXCEPT !.ok = FALSE, !.status = 500]
RespErrors == [RespOk EXCEPT !.errors = TRUE]
RespNoData == [RespOk EXCEPT !.data = FALSE]
\* a success status with a body that is not JSON
RespNotJson == [RespOk EXCEPT !.json = FALSE, !.data = FALSE]
Responses ==
  {RespOk, RespAborted, RespFailed, RespHttp500, RespNotJson, RespErrors, RespNoData}

\* the remote carries a request out exactly when it answers with data
Served(resp) == resp = RespOk

\* query returning data whenever the body has data, before it looks at errors
QueryDataFirst(resp, data) ==
  IF resp.aborted
    THEN Throw(Error(<<"Request timed out. Please try again.">>))
  ELSE IF resp.failed
    THEN Throw(Error(<<"Wiki.js API request failed: ", "fetch failed">>))
  ELSE IF ~resp.ok
    THEN Throw(Error(<<"Wiki.js API request failed: ", "HTTP error! status: ", ToString(resp.status)>>))
  ELSE IF ~resp.json
    THEN Throw(Error(<<"Wiki.js API request failed: ", "Unexpected token">>))
  ELSE IF resp.data
    THEN Return(data)
  ELSE IF resp.errors
    THEN Throw(Error(<<"Wiki.js API request failed: ", "GraphQL Error: ", "[...]">>))
  ELSE Throw(Error(<<"Wiki.js API request failed: ", "No data returned from GraphQL API">>))

\* query<T>(query, variables): data is what the remote computes for the request
Query(resp, data) ==
  IF resp.aborted
    THEN Throw(Error(<<"Request timed out. Please try again.">>))
  ELSE IF resp.failed
    THEN Throw(Error(<<"Wiki.js API request failed: ", "fetch failed">>))
  ELSE IF ~resp.ok
    THEN Throw(Error(<<"Wiki.js API request failed: ", "HTTP error! status: ", ToString(resp.status)>>))
  ELSE IF ~resp.json
    THEN Throw(Error(<<"Wiki.js API request failed: ", "Unexpected token">>))
  ELSE IF resp.errors
    THEN Throw(Error(<<"Wiki.js API request failed: ", "GraphQL Error: ", "[...]">>))
  ELSE IF ~resp.data
    THEN Throw(Error(<<"Wiki.js API request failed: ", "No data returned from GraphQL API">>))
  ELSE Return(data)

\* ------------------------------------------------------------ WikiJsClient
\* listPages slicing before it filters
listPagesSliceFirst(w, resp, locale, limit, offset) ==
  LET q == Query(resp, RemoteList(w))
  IN IF ~q.ok THEN q
     ELSE LET all == q.value
              total == ListingLen(all)
              sliced == SliceRuns(all, offset, limit)
              pages == IF IsSome(locale) /\ locale.v # <<>>
                         THEN FilterLocale(sliced, locale.v) ELSE sliced
          IN Return([pages |-> pages, total |-> total])

\* listPages(locale, limit, offset): total is taken before the locale filter
listPages(w, resp, locale, limit, offset) ==
  LET q == Query(resp, RemoteList(w))
  IN IF ~q.ok THEN q
     ELSE LET all == q.value
              total == ListingLen(all)
              pages == IF IsSome(locale) /\ locale.v # <<>>
                         THEN FilterLocale(all, locale.v) ELSE all
          IN Return([pages |-> SliceRuns(pages, offset, limit), total |-> total])

\* getAllPages()
getAllPages(w, resp) ==
  LET r == listPages(w, resp, Null, ALL_PAGES_LIMIT, 0)
  IN IF ~r.ok THEN r ELSE Return(r.value.pages)

\* getPageById(id)
getPageById(w, resp, id) ==
  LET q == Query(resp, RemoteSingle(w, id))
  IN IF ~q.ok THEN q
     ELSE IF IsSome(q.value)
       THEN Return(Some([q.value.v EXCEPT !.content = TruncateById(@)]))
       ELSE Return(q.value)

\* getPageByPath(path, locale)
getPageByPath(w, resp, path, locale) ==
  LET q == Query(resp, RemoteSingleByPath(w, path, locale))
  IN IF ~q.ok THEN q
     ELSE IF IsSome(q.value)
       THEN Return(Some([q.value.v EXCEPT !.content = TruncateByPath(@)]))
       ELSE Return(q.value)

\* updatePage building its variables with `if (params.content)`: an empty
\* string counts as not provided
UpdateVariablesTruthy(params) ==
  [id |-> params.id,
   content |-> IF IsSome(params.content) /\ params.content.v # <<>> THEN params.content ELSE Undefined,
   title |-> IF IsSome(params.title) THEN params.title ELSE Undefined,
   description |-> IF IsSome(params.description) THEN params.description ELSE Undefined,
   isPublished |-> IF IsSome(params.isPublished) THEN params.isPublished ELSE Undefined,
   tags |-> IF IsSome(params.tags) THEN params.tags ELSE Undefined]

\* updatePage(params), "Build dynamic mutation based on provided fields":
\* the variables of the request, a field left out being Undefined
UpdateVariables(params) ==
  [id |-> params.id,
   content |-> IF IsSome(params.content) THEN params.content ELSE Undefined,
   title |-> IF IsSome(params.title) THEN params.title ELSE Undefined,
   description |-> IF IsSome(params.description) THEN params.description ELSE Undefined,
   isPublished |-> IF IsSome(params.isPublished) THEN params.isPublished ELSE Undefined,
   tags |-> IF IsSome(params.tags) THEN params.tags ELSE Undefined]

\* updatePage(params): the outcome and the wiki after the request
updatePage(w, resp, params) ==
  LET r == RemoteUpdate(w, UpdateVariables(params))
      q == Query(resp, r.responseResult)
  IN IF ~q.ok THEN [out |-> q, wiki |-> w]
     ELSE IF ~q.value.succeeded
       THEN [out |-> Throw(Error(<<"Failed to update page: ", q.value.message>>)), wiki |-> r.wiki]
       ELSE [out |-> Return(q.value), wiki |-> r.wiki]

\* deletePage returning responseResult without looking at succeeded
deletePageUnchecked(w, resp, id) ==
  LET r == RemoteDelete(w, id)
      q == Query(resp, r.responseResult)
  IN IF ~q.ok THEN [out |-> q, wiki |-> w] ELSE [out |-> Return(q.value), wiki |-> r.wiki]

\* deletePage(id)
deletePage(w, resp, id) ==
  LET r == RemoteDelete(w, id)
      q == Query(resp, r.responseResult)
  IN IF ~q.ok THEN [out |-> q, wiki |-> w]
     ELSE IF ~q.value.succeeded
       THEN [out |-> Throw(Error(<<"Failed to delete page: ", q.value.message>>)), wiki |-> r.wiki]
       ELSE [out |-> Return(q.value), wiki |-> r.wiki]

\* movePage(id, destinationPath, destinationLocale)
movePage(w, resp, id, destinationPath, destinationLocale) ==
  LET r == RemoteMove(w, id, destinationPath, destinationLocale)
      q == Query(resp, r.responseResult)
  IN IF ~q.ok THEN [out |-> q, wiki |-> w]
     ELSE IF ~q.value.succeeded
       THEN [out |-> Throw(Error(<<"Failed to move page: ", q.value.message>>)), wiki |-> r.wiki]
       ELSE [out |-> Return(q.value), wiki |-> r.wiki]

\* createPage(params)
createPage(w, resp, params) ==
  LET r == RemoteCreate(w, params)
      q == Query(resp, r)
  IN IF ~q.ok THEN [out |-> q, wiki |-> w]
     ELSE IF ~q.value.responseResult.succeeded
       THEN [out |-> Throw(Error(<<"Failed to create page: ", q.value.responseResult.message>>)),
             wiki |-> r.wiki]
       ELSE [out |-> Return(q.value.page.v), wiki |-> r.wiki]

\* searchPages filtering the results and keeping the remote's totalHits
searchPagesKeepTotal(w, resp, searchQuery, locale, more) ==
  LET q == Query(resp, RemoteSearch(w, searchQuery, more))
  IN IF ~q.ok THEN q
     ELSE IF IsSome(locale) /\ locale.v # <<>>
       THEN Return([q.value EXCEPT !.results = FilterLocale(q.value.results, locale.v)])
       ELSE Return(q.value)

\* searchPages(searchQuery, locale)
searchPages(w, resp, searchQuery, locale, more) ==
  LET q == Query(resp, RemoteSearch(w, searchQuery, more))
  IN IF ~q.ok THEN q
     ELSE IF IsSome(locale) /\ locale.v # <<>>
       THEN LET filtered == FilterLocale(q.value.results, locale.v)
            IN Return([q.value EXCEPT !.results = filtered, !.totalHits = ListingLen(filtered)])
       ELSE Return(q.value)

\* ------------------------------------------------------------ state
VARIABLES
  wiki,     \* the remote wiki: its page listing
  wiki0,    \* the wiki as it was at the start
  inv,      \* per invocation slot: the handler's position and locals
  started,  \* the number of invocations started so far
  pg,       \* a caller paging through list_pages by has_more / next_offset
  qry,      \* one query() call: its position, its timer and the time it has taken
  last,     \* the invocation before this one, where a run remembers it
  proc      \* the server process: its environment, how far startup got, its shutdown
vars == <<wiki, wiki0, inv, started, pg, qry, last, proc>>

\* index.ts once main() has connected the transport: both environment values
\* set, client constructed, tools registered, handlers installed
Serving ==
  [pc |-> "serving", url |-> Some(<<"u">>), token |-> Some(<<"k">>), exitCode |-> Undefined,
   clientBuilt |-> TRUE, toolsRegistered |-> TRUE, handlersInstalled |-> TRUE,
   connectCalled |-> TRUE, isShuttingDown |-> FALSE, closeCalls |-> 0, closing |-> "no",
   events |-> 0, ignored |-> 0]

\* the number of tool invocations of one behaviour
MaxInvocations == 2
\* the most hits a search reply counts in totalHits without listing them
MaxUnlistedHits == 1
Slots == {1}

\* !x for an optional number, and for an optional string
FalsyNum(o) == ~IsSome(o) \/ o.v = 0
FalsyStr(o) == ~IsSome(o) \/ o.v = <<>>

IdleInv ==
  [pc |-> "idle", tool |-> "none", args |-> <<>>, pageId |-> Undefined,
   currentPage |-> Null, contentToUse |-> Undefined, tagsToUse |-> Undefined,
   calls |-> <<>>, replies |-> <<>>, result |-> Undefined, fetched |-> Undefined,
   remoteResult |-> Undefined]

\* a handler returns its envelope
Finish(st, env) == [st EXCEPT !.pc = "done", !.result = Some(env)]
\* await client.<op>(...): the request leaves, the handler waits for it
Call(st, op, v) == [st EXCEPT !.pc = op, !.calls = Append(@, [op |-> op, vars |-> v])]
\* the variables of the request the handler waits for, or sent last
LastCallOf(st) == st.calls[Len(st.calls)].vars
\* a catch block that sends a failed request once more before giving up
FailAfterRetry(st, e) ==
  IF /\ st.replies # <<>> /\ ~st.replies[Len(st.replies)]
     /\ \A k \in 1..(Len(st.calls) - 1) : st.calls[k].op # st.calls[Len(st.calls)].op
    THEN Call(st, st.calls[Len(st.calls)].op, LastCallOf(st))
    ELSE Finish(st, handleToolError(e, st.tool))
\* a catch block that, when the listing for the tags failed, sends the update
\* with no tags instead of giving up
FailButSubmit(st, e) ==
  IF /\ st.tool = "wikijs_update_page" /\ st.calls # <<>>
     /\ st.calls[Len(st.calls)].op = "getAllPages"
     /\ Len(st.replies) = Len(st.calls) /\ ~st.replies[Len(st.replies)]
    THEN Call(st, "updatePage",
              [id |-> st.pageId.v, content |-> Coalesce(st.contentToUse, Null),
               title |-> Coalesce(st.args.title, Null),
               description |-> Coalesce(st.args.description, Null),
               isPublished |-> Coalesce(st.args.isPublished, Null), tags |-> Some(<<>>)])
    ELSE Finish(st, handleToolError(e, st.tool))
\* catch (error) { return handleToolError(error, <tool name>) }
Fail(st, e) == Finish(st, handleToolError(e, st.tool))
Begin(tool, args) == [IdleInv EXCEPT !.pc = "running", !.tool = tool, !.args = args]

\* ------------------------------------------------------------ schemas/index.ts
\* localeSchema.default('en')
LocaleOrDefault(o) == IF IsSome(o) THEN o.v ELSE En

\* z.number().int().positive()
IdIssues(o) ==
  (IF IsSome(o) /\ IsHalf(o) THEN <<Issue("id", "Expected integer, received float")>> ELSE <<>>)
    \o (IF IsSome(o) /\ o.v <= 0 /\ ~(IsHalf(o) /\ o.v = 0)
          THEN <<Issue("id", "Number must be greater than 0")>> ELSE <<>>)
PathIssues(o) ==
  IF IsSome(o) /\ StrLen(o.v) < 1
    THEN <<Issue("path", "String must contain at least 1 character(s)")>>
  ELSE IF IsSome(o) /\ StrLen(o.v) > 500
    THEN <<Issue("path", "String must contain at most 500 character(s)")>>
  ELSE <<>>
LocaleIssues(o, field) ==
  IF IsSome(o) /\ StrLen(o.v) < 2
    THEN <<Issue(field, "String must contain at least 2 character(s)")>>
  ELSE IF IsSome(o) /\ StrLen(o.v) > 5
    THEN <<Issue(field, "String must contain at most 5 character(s)")>>
  ELSE <<>>
MaxIssues(o, field, max) ==
  IF IsSome(o) /\ StrLen(o.v) > max
    THEN <<Issue(field, "String must contain at most " \o ToString(max) \o " character(s)")>>
    ELSE <<>>

\* updatePageSchema.parse(args): the issues, none when args are valid
UpdatePageIssues(a) ==
  IdIssues(a.id) \o PathIssues(a.path) \o LocaleIssues(a.locale, "locale")
    \o MaxIssues(a.title, "title", 200) \o MaxIssues(a.description, "description", 500)
\* getPageSchema.parse(args), deletePageSchema.parse(args)
IdentityIssues(a) == IdIssues(a.id) \o PathIssues(a.path) \o LocaleIssues(a.locale, "locale")

\* ------------------------------------------------------------ tools/update-page.ts
\* the update request built with `validated.title || null` and the like: a
\* falsy value supplied by the caller counts as not supplied
UpdateSubmitTruthy(st) ==
  Call(st, "updatePage",
       [id |-> st.pageId.v,
        content |-> Coalesce(st.contentToUse, Null),
        title |-> IF FalsyStr(st.args.title) THEN Null ELSE st.args.title,
        description |-> IF FalsyStr(st.args.description) THEN Null ELSE st.args.description,
        isPublished |-> IF st.args.isPublished = Some(TRUE) THEN st.args.isPublished ELSE Null,
        tags |-> st.tagsToUse])

\* const result = await client.updatePage({...})
UpdateSubmit(st) ==
  Call(st, "updatePage",
       [id |-> st.pageId.v,
        content |-> Coalesce(st.contentToUse, Null),
        title |-> Coalesce(st.args.title, Null),
        description |-> Coalesce(st.args.description, Null),
        isPublished |-> Coalesce(st.args.isPublished, Null),
        tags |-> st.tagsToUse])

\* the tags step taking an empty array for "not provided"
UpdateTagsEmptyAsAbsent(st) ==
  LET s1 == [st EXCEPT !.tagsToUse = st.args.tags]
  IN IF s1.tagsToUse = Undefined \/ s1.tagsToUse = Some(<<>>)
       THEN Call(s1, "getAllPages", <<>>) ELSE UpdateSubmit(s1)

\* "If tags not provided, fetch current tags to preserve them"
UpdateTags(st) ==
  LET s1 == [st EXCEPT !.tagsToUse = st.args.tags]
  IN IF s1.tagsToUse = Undefined THEN Call(s1, "getAllPages", <<>>) ELSE UpdateSubmit(s1)

\* "If content not provided, fetch current content to preserve it"
UpdateContent(st) ==
  LET s1 == [st EXCEPT !.contentToUse = st.args.content]
  IN IF s1.contentToUse = Undefined
       THEN IF ~IsSome(s1.currentPage)
              THEN Call(s1, "getPageById", [id |-> s1.pageId.v])
              ELSE UpdateTags([s1 EXCEPT !.contentToUse = s1.currentPage.v.content])
       ELSE UpdateTags(s1)

\* handleUpdatePage up to its first request
UpdateStart(a) ==
  LET issues == UpdatePageIssues(a)
      validated == [a EXCEPT !.locale = Some(LocaleOrDefault(a.locale))]
      st == Begin("wikijs_update_page", validated)
  IN IF issues # <<>> THEN Fail(st, ZodError(issues))
     ELSE IF FalsyNum(validated.id) /\ FalsyStr(validated.path)
       THEN Fail(st, Error(<<"Either \"id\" or \"path\" must be provided">>))
     ELSE LET s1 == [st EXCEPT !.pageId = validated.id]
          IN IF FalsyNum(s1.pageId) /\ ~FalsyStr(validated.path)
               THEN Call(s1, "getPageByPath", [path |-> validated.path.v, locale |-> validated.locale.v])
             ELSE IF FalsyNum(s1.pageId)
               THEN Fail(s1, Error(<<"Could not resolve page ID">>))
             ELSE UpdateContent(s1)

\* handleUpdatePage keeping only the id of the page fetched by path
UpdateAfterPathIdOnly(st, page) ==
  IF ~IsSome(page)
    THEN Fail(st, Error(<<"Page not found at path: ", ToString(st.args.path.v)>>))
    ELSE UpdateContent([st EXCEPT !.pageId = Some(page.v.id)])

\* handleUpdatePage after getPageByPath returned page
UpdateAfterPath(st, page) ==
  LET s1 == [st EXCEPT !.currentPage = page]
  IN IF ~IsSome(page)
       THEN Fail(s1, Error(<<"Page not found at path: ", ToString(st.args.path.v)>>))
       ELSE LET s2 == [s1 EXCEPT !.pageId = Some(page.v.id)]
            IN IF FalsyNum(s2.pageId)
                 THEN Fail(s2, Error(<<"Could not resolve page ID">>))
                 ELSE UpdateContent(s2)

\* handleUpdatePage reading `currentPage?.content` without its not-found check
UpdateAfterIdNoCheck(st, page) ==
  UpdateTags([st EXCEPT !.currentPage = page,
                        !.contentToUse = IF IsSome(page) THEN page.v.content ELSE Undefined])

\* handleUpdatePage after getPageById returned page
UpdateAfterId(st, page) ==
  LET s1 == [st EXCEPT !.currentPage = page]
  IN IF ~IsSome(page)
       THEN Fail(s1, Error(<<"Page not found with ID: ", ToString(st.pageId.v)>>))
       ELSE UpdateTags([s1 EXCEPT !.contentToUse = page.v.content])

\* handleUpdatePage after getAllPages returned pages
UpdateAfterAllPages(st, pages) ==
  LET k == FindById(pages, st.pageId.v)
  IN UpdateSubmit([st EXCEPT !.tagsToUse =
                     IF k # 0 THEN Some(pages[k].tags) ELSE Some(<<>>)])

\* handleUpdatePage after updatePage returned result
UpdateAfterSubmit(st, result) ==
  Finish(st, successResponse([message |-> <<"Page ", ToString(st.pageId.v), " updated successfully">>,
                              result |-> result]))

\* ------------------------------------------------------------ tools/get-page.ts
\* handleGetPage up to its request
GetStart(a) ==
  LET issues == IdentityIssues(a)
      validated == [a EXCEPT !.locale = Some(LocaleOrDefault(a.locale))]
      st == Begin("wikijs_get_page", validated)
  IN IF issues # <<>> THEN Fail(st, ZodError(issues))
     ELSE IF FalsyNum(validated.id) /\ FalsyStr(validated.path)
       THEN Fail(st, Error(<<"Either \"id\" or \"path\" must be provided">>))
     ELSE IF ~FalsyNum(validated.id)
       THEN Call(st, "getPageById", [id |-> validated.id.v])
     ELSE Call(st, "getPageByPath", [path |-> validated.path.v, locale |-> validated.locale.v])

\* handleGetPage without its `if (!page)` check
GetAfterFetchNoCheck(st, page) == Finish(st, successResponse([page |-> page]))

\* handleGetPage deleting the page it has fetched
GetAfterFetchThenDelete(st, page) ==
  IF ~IsSome(page)
    THEN Fail(st, Error(<<"Page not found">>))
    ELSE Call(st, "deletePage", [id |-> page.v.id])

\* handleGetPage after the fetch returned page
GetAfterFetch(st, page) ==
  IF ~IsSome(page)
    THEN Fail(st, Error(IF ~FalsyStr(st.args.path)
                          THEN <<"Page not found", " at path: ", ToString(st.args.path.v)>>
                          ELSE <<"Page not found", " with ID: ", ToString(st.args.id.v)>>))
    ELSE Finish(st, successResponse([page |-> page.v]))

\* ------------------------------------------------------------ tools/delete-page.ts
\* handleDeletePage resolving by path whenever a path is given, id or not
DeleteStartPathFirst(a) ==
  LET issues == IdentityIssues(a)
      validated == [a EXCEPT !.locale = Some(LocaleOrDefault(a.locale))]
      st == Begin("wikijs_delete_page", validated)
  IN IF issues # <<>> THEN Fail(st, ZodError(issues))
     ELSE IF FalsyNum(validated.id) /\ FalsyStr(validated.path)
       THEN Fail(st, Error(<<"Either \"id\" or \"path\" must be provided">>))
     ELSE LET s1 == [st EXCEPT !.pageId = validated.id]
          IN IF ~FalsyStr(validated.path)
               THEN Call(s1, "getPageByPath", [path |-> validated.path.v, locale |-> validated.locale.v])
               ELSE Call(s1, "deletePage", [id |-> s1.pageId.v])

\* handleDeletePage up to its first request
DeleteStart(a) ==
  LET issues == IdentityIssues(a)
      validated == [a EXCEPT !.locale = Some(LocaleOrDefault(a.locale))]
      st == Begin("wikijs_delete_page", validated)
  IN IF issues # <<>> THEN Fail(st, ZodError(issues))
     ELSE IF FalsyNum(validated.id) /\ FalsyStr(validated.path)
       THEN Fail(st, Error(<<"Either \"id\" or \"path\" must be provided">>))
     ELSE LET s1 == [st EXCEPT !.pageId = validated.id]
          IN IF FalsyNum(s1.pageId) /\ ~FalsyStr(validated.path)
               THEN Call(s1, "getPageByPath", [path |-> validated.path.v, locale |-> validated.locale.v])
             ELSE IF FalsyNum(s1.pageId)
               THEN Fail(s1, Error(<<"Could not resolve page ID">>))
             ELSE Call(s1, "deletePage", [id |-> s1.pageId.v])

\* handleDeletePage after getPageByPath returned page
DeleteAfterPath(st, page) ==
  IF ~IsSome(page)
    THEN Fail(st, Error(<<"Page not found at path: ", ToString(st.args.path.v)>>))
    ELSE LET s1 == [st EXCEPT !.pageId = Some(page.v.id)]
         IN IF FalsyNum(s1.pageId)
              THEN Fail(s1, Error(<<"Could not resolve page ID">>))
              ELSE Call(s1, "deletePage", [id |-> s1.pageId.v])

\* handleDeletePage after deletePage returned result
DeleteAfterSubmit(st, result) ==
  Finish(st, successResponse([message |-> <<"Page ", ToString(st.pageId.v), " deleted permanently">>,
                              result |-> result]))

\* ------------------------------------------------------------ tools/move-page.ts
\* movePageSchema.parse(args)
MovePageIssues(a) ==
  IdentityIssues(a)
    \o (IF ~IsSome(a.destinationPath) THEN <<Issue("destinationPath", "Required")>>
        ELSE IF StrLen(a.destinationPath.v) < 1
          THEN <<Issue("destinationPath", "String must contain at least 1 character(s)")>>
        ELSE MaxIssues(a.destinationPath, "destinationPath", 500))
    \o LocaleIssues(a.destinationLocale, "destinationLocale")

MoveCall(st) ==
  Call(st, "movePage", [id |-> st.pageId.v, destinationPath |-> st.args.destinationPath.v,
                        destinationLocale |-> st.args.destinationLocale.v])

\* handleMovePage without its "id or path" check
MoveStartNoCheck(a) ==
  LET issues == MovePageIssues(a)
      validated == [a EXCEPT !.locale = Some(LocaleOrDefault(a.locale)),
                             !.destinationLocale = Some(LocaleOrDefault(a.destinationLocale))]
      st == Begin("wikijs_move_page", validated)
  IN IF issues # <<>> THEN Fail(st, ZodError(issues))
     ELSE LET s1 == [st EXCEPT !.pageId = validated.id]
          IN IF FalsyNum(s1.pageId) /\ ~FalsyStr(validated.path)
               THEN Call(s1, "getPageByPath", [path |-> validated.path.v, locale |-> validated.locale.v])
             ELSE IF FalsyNum(s1.pageId)
               THEN Fail(s1, Error(<<"Could not resolve page ID">>))
             ELSE MoveCall(s1)

\* handleMovePage up to its first request
MoveStart(a) ==
  LET issues == MovePageIssues(a)
      validated == [a EXCEPT !.locale = Some(LocaleOrDefault(a.locale)),
                             !.destinationLocale = Some(LocaleOrDefault(a.destinationLocale))]
      st == Begin("wikijs_move_page", validated)
  IN IF issues # <<>> THEN Fail(st, ZodError(issues))
     ELSE IF FalsyNum(validated.id) /\ FalsyStr(validated.path)
       THEN Fail(st, Error(<<"Either \"id\" or \"path\" must be provided">>))
     ELSE LET s1 == [st EXCEPT !.pageId = validated.id]
          IN IF FalsyNum(s1.pageId) /\ ~FalsyStr(validated.path)
               THEN Call(s1, "getPageByPath", [path |-> validated.path.v, locale |-> validated.locale.v])
             ELSE IF FalsyNum(s1.pageId)
               THEN Fail(s1, Error(<<"Could not resolve page ID">>))
             ELSE MoveCall(s1)

\* handleMovePage after getPageByPath returned page
MoveAfterPath(st, page) ==
  IF ~IsSome(page)
    THEN Fail(st, Error(<<"Page not found at path: ", ToString(st.args.path.v)>>))
    ELSE LET s1 == [st EXCEPT !.pageId = Some(page.v.id)]
         IN IF FalsyNum(s1.pageId)
              THEN Fail(s1, Error(<<"Could not resolve page ID">>))
              ELSE MoveCall(s1)

\* handleMovePage after movePage returned result
MoveAfterSubmit(st, result) ==
  Finish(st, successResponse([message |-> <<"Page moved successfully">>,
                              to |-> st.args.destinationPath.v,
                              destinationLocale |-> st.args.destinationLocale.v,
                              result |-> result]))

\* ------------------------------------------------------------ tools/create-page.ts
\* createPageSchema.parse(args)
CreatePageIssues(a) ==
  (IF ~IsSome(a.path) THEN <<Issue("path", "Required")>> ELSE PathIssues(a.path))
    \o (IF ~IsSome(a.title) THEN <<Issue("title", "Required")>>
        ELSE IF StrLen(a.title.v) < 1
          THEN <<Issue("title", "String must contain at least 1 character(s)")>>
        ELSE MaxIssues(a.title, "title", 200))
    \o (IF ~IsSome(a.content) THEN <<Issue("content", "Required")>>
        ELSE IF StrLen(a.content.v) < 1
          THEN <<Issue("content", "String must contain at least 1 character(s)")>>
        ELSE <<>>)
    \o (IF ~IsSome(a.description) THEN <<Issue("description", "Required")>>
        ELSE IF StrLen(a.description.v) < 1
          THEN <<Issue("description", "String must contain at least 1 character(s)")>>
        ELSE MaxIssues(a.description, "description", 500))
    \o LocaleIssues(a.locale, "locale")

\* handleCreatePage up to its request
CreateStart(a) ==
  LET issues == CreatePageIssues(a)
      validated == [a EXCEPT !.locale = Some(LocaleOrDefault(a.locale)),
                             !.isPublished = Coalesce(a.isPublished, Some(TRUE)),
                             !.tags = Coalesce(a.tags, Some(<<>>))]
      st == Begin("wikijs_create_page", validated)
  IN IF issues # <<>> THEN Fail(st, ZodError(issues))
     ELSE Call(st, "createPage",
               [path |-> validated.path.v, title |-> validated.title.v,
                content |-> validated.content.v, description |-> validated.description.v,
                locale |-> validated.locale.v, isPublished |-> validated.isPublished.v,
                tags |-> validated.tags.v])

\* handleCreatePage after createPage returned page
CreateAfterSubmit(st, page) ==
  Finish(st, successResponse([message |-> <<"Page created successfully at /", ToString(st.args.path.v)>>,
                              page |-> [id |-> page.id, path |-> page.path, title |-> page.title]]))

\* ------------------------------------------------------------ tools/list-pages.ts
\* listPagesSchema.parse(args)
ListPagesIssues(a) ==
  LocaleIssues(a.locale, "locale")
    \o (IF IsSome(a.limit) /\ a.limit.v < 1
          THEN <<Issue("limit", "Number must be greater than or equal to 1")>>
        ELSE IF IsSome(a.limit) /\ a.limit.v > MAX_PAGE_LIMIT
          THEN <<Issue("limit", "Number must be less than or equal to 200")>>
        ELSE <<>>)
    \o (IF IsSome(a.offset) /\ a.offset.v < 0
          THEN <<Issue("offset", "Number must be greater than or equal to 0")>>
        ELSE <<>>)

\* handleListPages passing its arguments on without listPagesSchema.parse
ListStartNoParse(a) ==
  LET validated == [a EXCEPT !.limit = Coalesce(a.limit, Some(DEFAULT_PAGE_LIMIT)),
                             !.offset = Coalesce(a.offset, Some(0))]
  IN Call(Begin("wikijs_list_pages", validated), "listPages",
          [locale |-> Coalesce(validated.locale, Null), limit |-> validated.limit.v,
           offset |-> validated.offset.v])

\* handleListPages up to its request
ListStart(a) ==
  LET issues == ListPagesIssues(a)
      validated == [a EXCEPT !.limit = Coalesce(a.limit, Some(DEFAULT_PAGE_LIMIT)),
                             !.offset = Coalesce(a.offset, Some(0))]
      st == Begin("wikijs_list_pages", validated)
      limit == Coalesce(validated.limit, Some(DEFAULT_PAGE_LIMIT)).v
      offset == Coalesce(validated.offset, Some(0)).v
  IN IF issues # <<>> THEN Fail(st, ZodError(issues))
     ELSE Call(st, "listPages",
               [locale |-> Coalesce(validated.locale, Null), limit |-> limit, offset |-> offset])

\* pages.map((p) => ({id, path, title, description, locale, isPublished, tags}))
PageSummary(p) ==
  [id |-> p.id, n |-> p.n, path |-> p.path, title |-> p.title, description |-> p.description,
   locale |-> p.locale, isPublished |-> p.isPublished, tags |-> p.tags]

\* handleListPages after listPages returned {pages, total}
ListAfter(st, r) ==
  LET c == LastCallOf(st)
      pageList == [k \in 1..Len(r.pages) |-> PageSummary(r.pages[k])]
      hasMore == c.offset + ListingLen(pageList) < r.total
  IN Finish(st, [body |-> [success |-> TRUE, pages |-> pageList,
                           pagination |->
                             [limit |-> c.limit, offset |-> c.offset, total_count |-> r.total,
                              has_more |-> hasMore,
                              next_offset |-> IF hasMore THEN Some(c.offset + ListingLen(pageList))
                                              ELSE Undefined]],
                 isError |-> Undefined])

\* ------------------------------------------------------------ tools/search-pages.ts
\* searchPagesSchema.parse(args)
SearchPagesIssues(a) ==
  (IF ~IsSome(a.query) THEN <<Issue("query", "Required")>>
   ELSE IF StrLen(a.query.v) < 2
     THEN <<Issue("query", "String must contain at least 2 character(s)")>>
   ELSE MaxIssues(a.query, "query", 200))
    \o LocaleIssues(a.locale, "locale")

\* handleSearchPages up to its request
SearchStart(a) ==
  LET issues == SearchPagesIssues(a)
      st == Begin("wikijs_search_pages", a)
  IN IF issues # <<>> THEN Fail(st, ZodError(issues))
     ELSE Call(st, "searchPages", [query |-> a.query.v, locale |-> Coalesce(a.locale, Null)])

\* handleSearchPages after searchPages returned results
SearchAfter(st, results) ==
  Finish(st, [body |-> [success |-> TRUE, totalHits |-> results.totalHits,
                        suggestions |-> results.suggestions,
                        results |-> results.results],
              isError |-> Undefined])

\* ------------------------------------------------------------ inputs
Identities ==
  {[id |-> Undefined, path |-> Undefined, locale |-> Undefined],
   [id |-> Some(0), path |-> Undefined, locale |-> Undefined],
   [id |-> Some(1), path |-> Undefined, locale |-> Undefined],
   [id |-> Some(9), path |-> Undefined, locale |-> Undefined],
   [id |-> Undefined, path |-> Some(PathA), locale |-> Undefined],
   [id |-> Undefined, path |-> Some(PathA), locale |-> Some(De)],
   [id |-> Undefined, path |-> Some(PathZ), locale |-> Some(En)],
   [id |-> Some(1), path |-> Some(PathZ), locale |-> Undefined],
   [id |-> Half(1), path |-> Undefined, locale |-> Undefined],
   [id |-> Some(0), path |-> Some(<<>>), locale |-> Undefined]}
ContentArgs == {Undefined, Some(<<>>), Some(Rep("b", 1))}
TagsArgs == {Undefined, Some(<<>>), Some(<<"y">>)}
MetaArgs ==
  {[title |-> Undefined, description |-> Undefined, isPublished |-> Undefined],
   [title |-> Some(<<>>), description |-> Some(Lit(<<"n">>)), isPublished |-> Some(FALSE)]}
UpdateInputs ==
  {idt @@ m @@ [content |-> c, tags |-> t] :
     idt \in Identities, m \in MetaArgs, c \in ContentArgs, t \in TagsArgs}

MoveDests ==
  {[destinationPath |-> Some(Lit(<<"n">>)), destinationLocale |-> Undefined],
   [destinationPath |-> Some(PathB), destinationLocale |-> Some(De)]}
MoveInputs == {idt @@ d : idt \in Identities, d \in MoveDests}
CreateInputs ==
  {[path |-> Some(p), title |-> Some(Lit(<<"t">>)), content |-> Some(c),
    description |-> Some(Lit(<<"d">>)), locale |-> Undefined, isPublished |-> Undefined,
    tags |-> t] :
     p \in {PathA, PathZ},
     c \in {<<>>, Rep("a", 1), Rep("a", CHARACTER_LIMIT + 1)},
     t \in {Undefined, Some(<<"y">>)}}
ListInputs ==
  {[locale |-> l, limit |-> lim, offset |-> off] :
     l \in {Undefined, Some(De)},
     lim \in {Undefined, Some(0), Some(1), Some(MAX_PAGE_LIMIT + 1)},
     off \in {Undefined, Some(1), Some(0 - 1)}}
SearchInputs ==
  {[query |-> Some(q), locale |-> l] :
     q \in {Lit(<<"x">>), Lit(<<"x", "y">>)}, l \in {Undefined, Some(De)}}

\* ------------------------------------------------------------ actions
CanStart(i) == inv[i].pc = "idle" /\ started < MaxInvocations

\* the host invokes wikijs_update_page
StartUpdatePage(i) ==
  /\ CanStart(i)
  /\ \E a \in UpdateInputs : inv' = [inv EXCEPT ![i] = UpdateStart(a)]
  /\ started' = started + 1
  /\ UNCHANGED <<proc, last, qry, pg, wiki, wiki0>>

\* the host invokes wikijs_get_page
StartGetPage(i) ==
  /\ CanStart(i)
  /\ \E a \in Identities : inv' = [inv EXCEPT ![i] = GetStart(a)]
  /\ started' = started + 1
  /\ UNCHANGED <<proc, last, qry, pg, wiki, wiki0>>

\* the host invokes wikijs_delete_page
StartDeletePage(i) ==
  /\ CanStart(i)
  /\ \E a \in Identities : inv' = [inv EXCEPT ![i] = DeleteStart(a)]
  /\ started' = started + 1
  /\ UNCHANGED <<proc, last, qry, pg, wiki, wiki0>>

\* the host invokes wikijs_move_page
StartMovePage(i) ==
  /\ CanStart(i)
  /\ \E a \in MoveInputs : inv' = [inv EXCEPT ![i] = MoveStart(a)]
  /\ started' = started + 1
  /\ UNCHANGED <<proc, last, qry, pg, wiki, wiki0>>

\* the host invokes wikijs_create_page
StartCreatePage(i) ==
  /\ CanStart(i)
  /\ \E a \in CreateInputs : inv' = [inv EXCEPT ![i] = CreateStart(a)]
  /\ started' = started + 1
  /\ UNCHANGED <<proc, last, qry, pg, wiki, wiki0>>

\* the host invokes wikijs_list_pages
StartListPages(i) ==
  /\ CanStart(i)
  /\ \E a \in ListInputs : inv' = [inv EXCEPT ![i] = ListStart(a)]
  /\ started' = started + 1
  /\ UNCHANGED <<proc, last, qry, pg, wiki, wiki0>>

\* the host invokes wikijs_search_pages
StartSearchPages(i) ==
  /\ CanStart(i)
  /\ \E a \in SearchInputs : inv' = [inv EXCEPT ![i] = SearchStart(a)]
  /\ started' = started + 1
  /\ UNCHANGED <<proc, last, qry, pg, wiki, wiki0>>

\* client.getPageByPath settles and its caller runs on
ReplyGetPageByPath(i) ==
  /\ inv[i].pc = "getPageByPath"
  /\ \E resp \in Responses :
       LET c == LastCallOf(inv[i])
           out == getPageByPath(wiki, resp, c.path, c.locale)
           st == [inv[i] EXCEPT !.pc = "running", !.replies = Append(@, out.ok),
                                !.fetched = IF Served(resp)
                                              THEN RemoteSingleByPath(wiki, c.path, c.locale) ELSE @]
       IN inv' = [inv EXCEPT ![i] =
                    IF ~out.ok THEN Fail(st, out.error)
                    ELSE IF st.tool = "wikijs_update_page" THEN UpdateAfterPath(st, out.value)
                    ELSE IF st.tool = "wikijs_delete_page" THEN DeleteAfterPath(st, out.value)
                    ELSE IF st.tool = "wikijs_move_page" THEN MoveAfterPath(st, out.value)
                    ELSE GetAfterFetch(st, out.value)]
  /\ UNCHANGED <<proc, last, qry, pg, wiki, wiki0, started>>

\* client.getPageById settles and its caller runs on
ReplyGetPageById(i) ==
  /\ inv[i].pc = "getPageById"
  /\ \E resp \in Responses :
       LET c == LastCallOf(inv[i])
           out == getPageById(wiki, resp, c.id)
           st == [inv[i] EXCEPT !.pc = "running", !.replies = Append(@, out.ok),
                                !.fetched = IF Served(resp) THEN RemoteSingle(wiki, c.id) ELSE @]
       IN inv' = [inv EXCEPT ![i] =
                    IF ~out.ok THEN Fail(st, out.error)
                    ELSE IF st.tool = "wikijs_update_page" THEN UpdateAfterId(st, out.value)
                    ELSE GetAfterFetch(st, out.value)]
  /\ UNCHANGED <<proc, last, qry, pg, wiki, wiki0, started>>

\* client.getAllPages settles and handleUpdatePage runs on
ReplyGetAllPages(i) ==
  /\ inv[i].pc = "getAllPages"
  /\ \E resp \in Responses :
       LET out == getAllPages(wiki, resp)
           st == [inv[i] EXCEPT !.pc = "running", !.replies = Append(@, out.ok)]
       IN inv' = [inv EXCEPT ![i] =
                    IF ~out.ok THEN Fail(st, out.error) ELSE UpdateAfterAllPages(st, out.value)]
  /\ UNCHANGED <<proc, last, qry, pg, wiki, wiki0, started>>

\* client.updatePage settles and handleUpdatePage returns
ReplyUpdatePage(i) ==
  /\ inv[i].pc = "updatePage"
  /\ \E resp \in Responses :
       LET r == updatePage(wiki, resp, LastCallOf(inv[i]))
           st == [inv[i] EXCEPT !.pc = "running", !.replies = Append(@, r.out.ok),
                    !.remoteResult = IF Served(resp)
                      THEN Some(RemoteUpdate(wiki, UpdateVariables(LastCallOf(inv[i]))).responseResult)
                      ELSE @]
       IN /\ inv' = [inv EXCEPT ![i] =
                       IF ~r.out.ok THEN Fail(st, r.out.error) ELSE UpdateAfterSubmit(st, r.out.value)]
          /\ wiki' = r.wiki
  /\ UNCHANGED <<proc, last, qry, pg, wiki0, started>>

\* client.deletePage settles and handleDeletePage returns
ReplyDeletePage(i) ==
  /\ inv[i].pc = "deletePage"
  /\ \E resp \in Responses :
       LET r == deletePage(wiki, resp, LastCallOf(inv[i]).id)
           st == [inv[i] EXCEPT !.pc = "running", !.replies = Append(@, r.out.ok),
                    !.remoteResult = IF Served(resp)
                      THEN Some(RemoteDelete(wiki, LastCallOf(inv[i]).id).responseResult) ELSE @]
       IN /\ inv' = [inv EXCEPT ![i] =
                       IF ~r.out.ok THEN Fail(st, r.out.error) ELSE DeleteAfterSubmit(st, r.out.value)]
          /\ wiki' = r.wiki
  /\ UNCHANGED <<proc, last, qry, pg, wiki0, started>>

\* client.movePage settles and handleMovePage returns
ReplyMovePage(i) ==
  /\ inv[i].pc = "movePage"
  /\ \E resp \in Responses :
       LET c == LastCallOf(inv[i])
           r == movePage(wiki, resp, c.id, c.destinationPath, c.destinationLocale)
           st == [inv[i] EXCEPT !.pc = "running", !.replies = Append(@, r.out.ok),
                    !.remoteResult = IF Served(resp)
                      THEN Some(RemoteMove(wiki, c.id, c.destinationPath, c.destinationLocale).responseResult)
                      ELSE @]
       IN /\ inv' = [inv EXCEPT ![i] =
                       IF ~r.out.ok THEN Fail(st, r.out.error) ELSE MoveAfterSubmit(st, r.out.value)]
          /\ wiki' = r.wiki
  /\ UNCHANGED <<proc, last, qry, pg, wiki0, started>>

\* client.createPage settles and handleCreatePage returns
ReplyCreatePage(i) ==
  /\ inv[i].pc = "createPage"
  /\ \E resp \in Responses :
       LET r == createPage(wiki, resp, LastCallOf(inv[i]))
           st == [inv[i] EXCEPT !.pc = "running", !.replies = Append(@, r.out.ok),
                    !.remoteResult = IF Served(resp)
                      THEN Some(RemoteCreate(wiki, LastCallOf(inv[i])).responseResult) ELSE @]
       IN /\ inv' = [inv EXCEPT ![i] =
                       IF ~r.out.ok THEN Fail(st, r.out.error) ELSE CreateAfterSubmit(st, r.out.value)]
          /\ wiki' = r.wiki
  /\ UNCHANGED <<proc, last, qry, pg, wiki0, started>>

\* client.listPages settles and handleListPages returns
ReplyListPages(i) ==
  /\ inv[i].pc = "listPages"
  /\ \E resp \in Responses :
       LET c == LastCallOf(inv[i])
           out == listPages(wiki, resp, c.locale, c.limit, c.offset)
           st == [inv[i] EXCEPT !.pc = "running", !.replies = Append(@, out.ok)]
       IN inv' = [inv EXCEPT ![i] =
                    IF ~out.ok THEN Fail(st, out.error) ELSE ListAfter(st, out.value)]
  /\ UNCHANGED <<proc, last, qry, pg, wiki, wiki0, started>>

\* client.searchPages settles and handleSearchPages returns
ReplySearchPages(i) ==
  /\ inv[i].pc = "searchPages"
  /\ \E resp \in Responses, more \in 0..MaxUnlistedHits :
       LET c == LastCallOf(inv[i])
           out == searchPages(wiki, resp, c.query, c.locale, more)
           st == [inv[i] EXCEPT !.pc = "running", !.replies = Append(@, out.ok),
                                !.fetched = IF Served(resp)
                                              THEN Some(RemoteSearch(wiki, c.query, more)) ELSE @]
       IN inv' = [inv EXCEPT ![i] =
                    IF ~out.ok THEN Fail(st, out.error) ELSE SearchAfter(st, out.value)]
  /\ UNCHANGED <<proc, last, qry, pg, wiki, wiki0, started>>

\* the host takes the envelope the handler returned; the slot is free again
Deliver(i) ==
  /\ inv[i].pc = "done"
  /\ inv' = [inv EXCEPT ![i] = IdleInv]
  /\ UNCHANGED <<proc, last, qry, pg, wiki, wiki0, started>>

\* ------------------------------------------------------------ paging caller
\* no caller is paging
PgOff == [state |-> "off", locale |-> Undefined, limit |-> Undefined, offset |-> 0, received |-> <<>>]

\* the caller asks for the slice at its offset
PaginateRequest(i) ==
  /\ pg.state = "ready"
  /\ inv[i].pc = "idle"
  /\ inv' = [inv EXCEPT ![i] =
               ListStart([locale |-> pg.locale, limit |-> pg.limit, offset |-> Some(pg.offset)])]
  /\ pg' = [pg EXCEPT !.state = "waiting"]
  /\ UNCHANGED <<proc, last, qry, wiki, wiki0, started>>

\* the caller takes the envelope: "Use pagination.has_more and
\* pagination.next_offset to fetch more results"
PaginateConsume(i) ==
  /\ pg.state = "waiting"
  /\ inv[i].pc = "done"
  /\ LET body == inv[i].result.v.body
     IN pg' = IF ~body.success THEN [pg EXCEPT !.state = "failed"]
              ELSE [pg EXCEPT
                      !.received = @ \o [k \in 1..Len(body.pages) |->
                                           [id |-> body.pages[k].id, n |-> body.pages[k].n]],
                      !.state = IF body.pagination.has_more THEN "ready" ELSE "done",
                      !.offset = IF body.pagination.has_more
                                   THEN body.pagination.next_offset.v ELSE @]
  /\ inv' = [inv EXCEPT ![i] = IdleInv]
  /\ UNCHANGED <<proc, last, qry, wiki, wiki0, started>>

\* ------------------------------------------------------------ two invocations in a row
NoLast == [tool |-> "none", args |-> <<>>, success |-> FALSE]

\* the first invocation of a run
FirstUpdate(i) == started = 0 /\ StartUpdatePage(i)
FirstCreate(i) == started = 0 /\ StartCreatePage(i)

\* the host takes the envelope and the run remembers the invocation
Remember(i) ==
  /\ inv[i].pc = "done"
  /\ last' = [tool |-> inv[i].tool, args |-> inv[i].args,
              success |-> inv[i].result.v.body.success]
  /\ inv' = [inv EXCEPT ![i] = IdleInv]
  /\ UNCHANGED <<proc, qry, pg, wiki, wiki0, started>>

\* wikijs_update_page is invoked again with the arguments of the last one
RepeatUpdate(i) ==
  /\ inv[i].pc = "idle" /\ started = 1
  /\ last.tool = "wikijs_update_page"
  /\ inv' = [inv EXCEPT ![i] = UpdateStart(last.args)]
  /\ started' = started + 1
  /\ UNCHANGED <<proc, last, qry, pg, wiki, wiki0>>

\* wikijs_get_page is invoked with the path and locale of the page the last
\* invocation created
ReadBack(i) ==
  /\ inv[i].pc = "idle" /\ started = 1
  /\ last.tool = "wikijs_create_page" /\ last.success
  /\ inv' = [inv EXCEPT ![i] =
               GetStart([id |-> Undefined, path |-> last.args.path, locale |-> last.args.locale])]
  /\ started' = started + 1
  /\ UNCHANGED <<proc, last, qry, pg, wiki, wiki0>>

\* ------------------------------------------------------------ one query() call
API_TIMEOUT == 30000
\* time passes in steps of TickMs, up to MaxElapsed milliseconds
TickMs == 5000
MaxElapsed == 60000
\* the statuses a response may carry; response.ok is 200..299
Statuses == {200, 404, 500}
StatusOk(status) == 200 <= status /\ status <= 299
\* a response body: not JSON, or an object whose data is absent, null or
\* present and whose errors are absent, an empty list or a list
NoBody == [json |-> FALSE, data |-> "unread", errors |-> "unread"]
Bodies ==
  {[json |-> FALSE, data |-> "absent", errors |-> "absent"]}
    \cup {[json |-> TRUE, data |-> d, errors |-> e] :
            d \in {"absent", "null", "present"}, e \in {"absent", "empty", "list"}}
\* what the checks of query() see of a response: `result.errors` holds for
\* any array, `!result.data` for null and undefined
ResponseOf(status, body) ==
  [RespOk EXCEPT !.ok = StatusOk(status), !.status = status, !.json = body.json,
                 !.errors = body.errors \in {"empty", "list"},
                 !.data = body.data = "present"]
QueryIdle ==
  [pc |-> "idle", timer |-> "none", elapsed |-> 0, status |-> 0, body |-> NoBody,
   out |-> Undefined]
QueryPending == qry.pc \in {"fetch", "json"}

\* query(): setTimeout(() => controller.abort(), API_TIMEOUT), then fetch
QueryCall ==
  /\ qry.pc = "idle"
  /\ qry' = [qry EXCEPT !.pc = "fetch", !.timer = "armed"]
  /\ UNCHANGED <<proc, wiki, wiki0, inv, started, pg, last>>

\* time passes while the call is pending; an armed timer fires at its time
QueryTick ==
  /\ QueryPending
  /\ qry.elapsed < MaxElapsed
  /\ qry.timer = "armed" => qry.elapsed < API_TIMEOUT
  /\ qry' = [qry EXCEPT !.elapsed =
               IF qry.timer = "armed" /\ @ + TickMs > API_TIMEOUT THEN API_TIMEOUT
               ELSE @ + TickMs]
  /\ UNCHANGED <<proc, wiki, wiki0, inv, started, pg, last>>

\* the timer fires: controller.abort(); a pending fetch rejects with an
\* AbortError and the catch block throws the timeout error
QueryTimerFires ==
  /\ qry.timer = "armed"
  /\ qry.elapsed >= API_TIMEOUT
  /\ qry' = IF qry.pc = "fetch"
              THEN [qry EXCEPT !.timer = "fired", !.pc = "settled",
                               !.out = Query(RespAborted, "data")]
              ELSE [qry EXCEPT !.timer = "fired"]
  /\ UNCHANGED <<proc, wiki, wiki0, inv, started, pg, last>>

\* fetch rejects (no connection): the catch block wraps the error; the timer
\* stays armed
QueryFetchRejects ==
  /\ qry.pc = "fetch"
  /\ qry' = [qry EXCEPT !.pc = "settled", !.out = Query(RespFailed, "data")]
  /\ UNCHANGED <<proc, wiki, wiki0, inv, started, pg, last>>

\* the response's headers arrive: fetch resolves, clearTimeout(timeoutId),
\* and a status that is not a success throws before the body is read
QueryHeaders ==
  /\ qry.pc = "fetch"
  /\ \E status \in Statuses :
       qry' = IF StatusOk(status)
                THEN [qry EXCEPT !.pc = "json", !.timer = "cleared", !.status = status]
                ELSE [qry EXCEPT !.pc = "settled", !.timer = "cleared", !.status = status,
                                 !.out = Query(ResponseOf(status, NoBody), "data")]
  /\ UNCHANGED <<proc, wiki, wiki0, inv, started, pg, last>>

\* the body has arrived: response.json() settles and the checks run
QueryBody ==
  /\ qry.pc = "json"
  /\ \E body \in Bodies :
       qry' = [qry EXCEPT !.pc = "settled", !.body = body,
                          !.out = Query(ResponseOf(qry.status, body), "data")]
  /\ UNCHANGED <<proc, wiki, wiki0, inv, started, pg, last>>

\* ------------------------------------------------------------ initial states
Page(id, path, locale, content, tags) ==
  [id |-> id, n |-> 1, path |-> path, locale |-> locale, title |-> Lit(<<"t">>),
   description |-> Lit(<<"d">>), content |-> content, hasContent |-> TRUE,
   isPublished |-> TRUE, tags |-> tags]
\* n pages that no request addresses, ahead in the listing
Filler(n) == IF n = 0 THEN <<>> ELSE <<[Page(1000, PathFiller, En, Rep("x", 1), <<>>) EXCEPT !.n = n]>>

\* page 1 is the page the requests address: the number of pages listed ahead
\* of it, and the length of its body
InitShapes ==
  {[pad |-> 0, len |-> CHARACTER_LIMIT],
   [pad |-> 0, len |-> CHARACTER_LIMIT + 1],
   [pad |-> ALL_PAGES_LIMIT - 1, len |-> CHARACTER_LIMIT],
   [pad |-> ALL_PAGES_LIMIT, len |-> CHARACTER_LIMIT]}
InitWikis ==
  {Filler(sh.pad) \o <<Page(1, PathA, En, Rep("a", sh.len), <<"x">>),
                       Page(2, PathB, De, Rep("b", 1), <<"y">>)>> : sh \in InitShapes}

Init ==
  /\ wiki \in InitWikis
  /\ wiki0 = wiki
  /\ inv = [i \in Slots |-> IdleInv]
  /\ started = 0
  /\ pg = PgOff
  /\ qry = QueryIdle
  /\ last = NoLast
  /\ proc = Serving

Next ==
  \E i \in Slots :
    \/ StartUpdatePage(i)
    \/ StartGetPage(i)
    \/ StartDeletePage(i)
    \/ StartMovePage(i)
    \/ StartCreatePage(i)
    \/ StartListPages(i)
    \/ StartSearchPages(i)
    \/ ReplyGetPageByPath(i)
    \/ ReplyGetPageById(i)
    \/ ReplyGetAllPages(i)
    \/ ReplyUpdatePage(i)
    \/ ReplyDeletePage(i)
    \/ ReplyMovePage(i)
    \/ ReplyCreatePage(i)
    \/ ReplyListPages(i)
    \/ ReplySearchPages(i)
    \/ Deliver(i)

Spec == Init /\ [][Next]_vars

\* ------------------------------------------------------------ paging runs
\* the listing of the example: ExamplePages pages, the last GermanPages of
\* them in German when mixed
ExamplePages == 120
GermanPages == 50
ListWikis ==
  {<<>>,
   <<[Page(1, PathA, En, Rep("a", 1), <<"x">>) EXCEPT !.n = ExamplePages]>>,
   <<[Page(1, PathA, En, Rep("a", 1), <<"x">>) EXCEPT !.n = ExamplePages - GermanPages],
     [Page(500, PathB, De, Rep("b", 1), <<"y">>) EXCEPT !.n = GermanPages]>>,
   <<Page(1, PathA, En, Rep("a", 1), <<"x">>), Page(2, PathB, De, Rep("b", 1), <<"y">>),
     Page(3, PathZ, En, Rep("a", 1), <<>>)>>}
PagingLimits == {Some(1), Some(DEFAULT_PAGE_LIMIT), Some(MAX_PAGE_LIMIT)}
PagingLocales == {Undefined, Some(En), Some(De)}

InitList ==
  /\ wiki \in ListWikis
  /\ wiki0 = wiki
  /\ inv = [i \in Slots |-> IdleInv]
  /\ started = 0
  /\ \E l \in PagingLocales, lim \in PagingLimits :
       pg = [state |-> "ready", locale |-> l, limit |-> lim, offset |-> 0, received |-> <<>>]
  /\ qry = QueryIdle
  /\ last = NoLast
  /\ proc = Serving

NextList ==
  \E i \in Slots :
    \/ PaginateRequest(i)
    \/ ReplyListPages(i)
    \/ PaginateConsume(i)

\* The handlers are registered as async callbacks and nothing in the server
\* holds a request back while another handler awaits the remote: a second
\* invocation may start while the first is waiting.
ConcSlots == {1, 2}
InitConcurrent ==
  /\ wiki \in InitWikis
  /\ wiki0 = wiki
  /\ inv = [i \in ConcSlots |-> IdleInv]
  /\ started = 0
  /\ pg = PgOff
  /\ qry = QueryIdle
  /\ last = NoLast
  /\ proc = Serving
NextConcurrent ==
  \E i \in ConcSlots :
    \/ StartGetPage(i)
    \/ StartDeletePage(i)
    \/ ReplyGetPageByPath(i)
    \/ ReplyGetPageById(i)
    \/ ReplyDeletePage(i)
    \/ Deliver(i)
SpecConcurrent == InitConcurrent /\ [][NextConcurrent]_vars

\* an update followed by the same update, a create followed by a read
NextPairs ==
  \E i \in Slots :
    \/ FirstUpdate(i)
    \/ FirstCreate(i)
    \/ ReplyGetPageByPath(i)
    \/ ReplyGetPageById(i)
    \/ ReplyGetAllPages(i)
    \/ ReplyUpdatePage(i)
    \/ ReplyCreatePage(i)
    \/ Remember(i)
    \/ RepeatUpdate(i)
    \/ ReadBack(i)
SpecPairs == Init /\ [][NextPairs]_vars

\* one query() call against a remote that answers when it likes, or never
NextQuery ==
  \/ QueryCall
  \/ QueryTick
  \/ QueryTimerFires
  \/ QueryFetchRejects
  \/ QueryHeaders
  \/ QueryBody
InitQuery ==
  /\ wiki = <<>>
  /\ wiki0 = wiki
  /\ inv = [i \in Slots |-> IdleInv]
  /\ started = 0
  /\ pg = PgOff
  /\ qry = QueryIdle
  /\ last = NoLast
  /\ proc = Serving
SpecQuery == InitQuery /\ [][NextQuery]_vars

\* every request is answered or fails, and the caller goes on
SpecList ==
  /\ InitList
  /\ [][NextList]_vars
  /\ WF_vars(\E i \in Slots : PaginateRequest(i))
  /\ WF_vars(\E i \in Slots : ReplyListPages(i))
  /\ WF_vars(\E i \in Slots : PaginateConsume(i))

\* ------------------------------------------------------------ properties
UpdateTool == "wikijs_update_page"
ResolvingTools == {"wikijs_get_page", "wikijs_update_page", "wikijs_delete_page", "wikijs_move_page"}
HasCall(st, op) == \E k \in 1..Len(st.calls) : st.calls[k].op = op
\* the variables of the update mutation the invocation has sent
SentUpdate(st) == UpdateVariables(LastCallOf(st))
UpdateSent(st) == st.tool = UpdateTool /\ HasCall(st, "updatePage")
Failed(st) ==
  /\ st.pc = "done"
  /\ st.result.v.body.success = FALSE
  /\ st.result.v.isError = Some(TRUE)
Succeeded_(st) == st.pc = "done" /\ st.result.v.body.success = TRUE
StoredContents(w) == [k \in 1..Len(w) |-> [id |-> w[k].id, content |-> w[k].content]]

\* C1: an update_page that omits content sends, as content, the body the
\* page had when it was fetched: present, equal to the stored body, not empty.
C1_OmittedContentIsStoredContent ==
  \A i \in Slots :
    (UpdateSent(inv[i]) /\ inv[i].args.content = Undefined) =>
      LET sent == SentUpdate(inv[i]).content
      IN /\ IsSome(sent)
         /\ sent.v = inv[i].fetched.v.content.v
         /\ sent.v # <<>>

\* C2: no step of a get_page, or of an update_page that omits content,
\* changes the stored body of any page.
C2_TruncationNeverMutatesStoredPage ==
  [][\A i \in Slots :
       (/\ inv'[i] # inv[i]
        /\ inv[i].tool \in {"wikijs_get_page", UpdateTool}
        /\ inv[i].tool = UpdateTool => inv[i].args.content = Undefined)
         => StoredContents(wiki') = StoredContents(wiki)]_vars

\* C3: an update_page that omits tags sends the tags that the page with the
\* resolved id carries in the wiki, wherever the page stands in the listing.
C3_OmittedTagsAreCurrentTags ==
  \A i \in Slots :
    (inv[i].tool = UpdateTool /\ inv[i].pc = "updatePage" /\ inv[i].args.tags = Undefined) =>
      LET k == FindById(wiki, inv[i].pageId.v)
      IN k # 0 => SentUpdate(inv[i]).tags = Some(wiki[k].tags)

\* C4: an update_page that supplies content, the empty string included, sends
\* exactly that content in the mutation and never fetches the page by id.
C4_SuppliedContentIsSentVerbatim ==
  \A i \in Slots :
    (inv[i].tool = UpdateTool /\ IsSome(inv[i].args.content)) =>
      /\ ~HasCall(inv[i], "getPageById")
      /\ UpdateSent(inv[i]) => SentUpdate(inv[i]).content = inv[i].args.content
C4_Witness ==
  \E i \in Slots :
    /\ UpdateSent(inv[i]) /\ Succeeded_(inv[i])
    /\ inv[i].args.content = Some(<<>>)
    /\ SentUpdate(inv[i]).content = Some(<<>>)
    /\ wiki[FindById(wiki, 1)].content = <<>>

\* C5: an update_page that supplies tags, the empty array included, sends
\* exactly those tags and never fetches the listing.
C5_SuppliedTagsAreSentVerbatim ==
  \A i \in Slots :
    (inv[i].tool = UpdateTool /\ IsSome(inv[i].args.tags)) =>
      /\ ~HasCall(inv[i], "getAllPages")
      /\ UpdateSent(inv[i]) => SentUpdate(inv[i]).tags = inv[i].args.tags
C5_Witness ==
  \E i \in Slots :
    /\ UpdateSent(inv[i]) /\ Succeeded_(inv[i])
    /\ inv[i].args.tags = Some(<<>>)
    /\ SentUpdate(inv[i]).tags = Some(<<>>)
    /\ wiki0[FindById(wiki0, 1)].tags # <<>>
    /\ wiki[FindById(wiki, 1)].tags = <<>>

\* C6: when the fetch by path of get, update, delete or move finds no page,
\* the handler returns a not-found failure and that fetch is its only request.
C6_PathNotFoundStopsTheHandler ==
  \A i \in Slots :
    (/\ inv[i].tool \in ResolvingTools
     /\ Len(inv[i].calls) >= 1
     /\ inv[i].calls[1].op = "getPageByPath"
     /\ inv[i].fetched = Null) =>
      /\ Failed(inv[i])
      /\ Len(inv[i].calls) = 1
      /\ inv[i].result.v.body.error[1] \in {"Page not found at path: ", "Page not found"}
C6_Witness ==
  \E i \in Slots :
    /\ inv[i].tool = "wikijs_delete_page"
    /\ Failed(inv[i])
    /\ inv[i].fetched = Null
    /\ Len(inv[i].calls) = 1 /\ inv[i].calls[1].op = "getPageByPath"
    /\ wiki = wiki0

\* C7: get, update, delete and move invoked with valid arguments that hold
\* neither id nor path fail with "Either id or path must be provided" and
\* send no request.
C7_NeitherIdNorPathFailsLocally ==
  \A i \in Slots :
    (/\ inv[i].tool \in ResolvingTools
     /\ inv[i].args.id = Undefined /\ inv[i].args.path = Undefined
     /\ inv[i].pc = "done" => inv[i].result.v.body.error[1] # "Validation error in ") =>
      /\ Failed(inv[i])
      /\ inv[i].calls = <<>>
      /\ inv[i].result.v.body.error = <<"Either \"id\" or \"path\" must be provided">>
C7_Witness ==
  \E i \in Slots :
    /\ inv[i].tool = "wikijs_move_page"
    /\ inv[i].args.id = Undefined /\ inv[i].args.path = Undefined
    /\ Failed(inv[i]) /\ inv[i].calls = <<>>

\* the envelope is a success without isError, or a failure with isError, an
\* error message and the tool's name
WellFormed(env, tool) ==
  \/ /\ env.body.success = TRUE
     /\ env.isError = Undefined
     /\ "error" \notin DOMAIN env.body
  \/ /\ env.body.success = FALSE
     /\ env.isError = Some(TRUE)
     /\ "error" \in DOMAIN env.body /\ env.body.error # <<>>
     /\ "tool" \in DOMAIN env.body /\ env.body.tool = tool

\* C8: a handler never stops between requests without returning; what it
\* returns is an envelope, either a success or a failure, never both.
C8_EveryInvocationReturnsAnEnvelope ==
  \A i \in Slots :
    /\ inv[i].pc # "running"
    /\ (inv[i].pc = "done") = IsSome(inv[i].result)
    /\ inv[i].pc = "done" => WellFormed(inv[i].result.v, inv[i].tool)
C8_Witness ==
  \E i \in Slots :
    /\ inv[i].tool = "wikijs_search_pages"
    /\ Failed(inv[i])
    /\ Len(inv[i].calls) = 1
    /\ inv[i].result.v.body.error = <<"Request timed out. Please try again.">>

\* the page at position k (from 1) of a listing
RECURSIVE ElementAt(_, _)
ElementAt(l, k) ==
  IF k <= Head(l).n THEN [Head(l) EXCEPT !.id = Head(l).id + (k - 1), !.n = 1]
  ELSE ElementAt(Tail(l), k - Head(l).n)
\* the pages of the wiki a locale filter lets through
Matching(w, locale) ==
  SelectSeq(w, LAMBDA r : locale = Null \/ r.locale = locale.v)
ListTool == "wikijs_list_pages"

\* C9: a successful list_pages returns the pages at positions
\* [offset, offset+limit) of the locale-filtered listing, in order; has_more
\* is (offset + returned count < total_count) and next_offset is there exactly
\* when has_more is, and is then offset + returned count.
C9_ListReturnsTheSlice ==
  \A i \in Slots :
    (inv[i].tool = ListTool /\ Succeeded_(inv[i])) =>
      LET c == LastCallOf(inv[i])
          body == inv[i].result.v.body
          p == body.pagination
          all == Matching(wiki, c.locale)
          rest == ListingLen(all) - c.offset
          count == IF rest <= 0 THEN 0 ELSE IF rest < c.limit THEN rest ELSE c.limit
      IN /\ ListingLen(body.pages) = count
         /\ \A k \in 1..count :
              ElementAt(body.pages, k) = PageSummary(ElementAt(all, c.offset + k))
         /\ p.has_more = (c.offset + count < p.total_count)
         /\ IsSome(p.next_offset) = p.has_more
         /\ p.has_more => p.next_offset.v = c.offset + count
         /\ p.offset = c.offset /\ p.limit = c.limit
C9_Witness ==
  \E i \in Slots :
    /\ inv[i].tool = ListTool /\ Succeeded_(inv[i])
    /\ ListingLen(wiki) = ExamplePages
    /\ LET body == inv[i].result.v.body
       IN /\ body.pagination.offset = DEFAULT_PAGE_LIMIT
          /\ body.pagination.limit = DEFAULT_PAGE_LIMIT
          /\ ListingLen(body.pages) = DEFAULT_PAGE_LIMIT
          /\ body.pagination.has_more
          /\ body.pagination.next_offset = Some(2 * DEFAULT_PAGE_LIMIT)
          /\ body.pagination.total_count = ExamplePages

\* C10: a caller that starts at offset 0 and follows next_offset while
\* has_more is true comes to an end: a response with has_more false (or a
\* failed request).
C10_PaginationTerminates == <>(pg.state \in {"done", "failed"})

SearchTool == "wikijs_search_pages"

\* C11: a successful search_pages with a locale returns the remote's hits of
\* that locale, in the remote's order, and totalHits is their number; without
\* a locale it returns the remote's results and totalHits as they came.
C11_SearchFiltersByLocale ==
  \A i \in Slots :
    (inv[i].tool = SearchTool /\ Succeeded_(inv[i])) =>
      LET c == LastCallOf(inv[i])
          raw == inv[i].fetched.v
          body == inv[i].result.v.body
      IN IF c.locale # Null
           THEN /\ body.results = SelectSeq(raw.results, LAMBDA r : r.locale = c.locale.v)
                /\ body.totalHits = ListingLen(body.results)
           ELSE /\ body.results = raw.results
                /\ body.totalHits = raw.totalHits
C11_Witness ==
  \E i \in Slots :
    /\ inv[i].tool = SearchTool /\ Succeeded_(inv[i])
    /\ LastCallOf(inv[i]).locale = Some(De)
    /\ LET raw == inv[i].fetched.v
           body == inv[i].result.v.body
       IN /\ ListingLen(raw.results) > ListingLen(body.results)
          /\ raw.totalHits > ListingLen(raw.results)
          /\ ListingLen(body.results) >= 1
          /\ body.totalHits = ListingLen(body.results)

GetTool == "wikijs_get_page"
\* text ends with a truncation notice that states the length len
EndsWithNotice(text, len) ==
  /\ text # <<>>
  /\ text[Len(text)].c \in {"noticeById", "noticeByPath"}
  /\ text[Len(text)].v = len
  /\ text[Len(text)].n >= 39 + Digits(len) + 7

\* C12: a successful get_page returns the stored content unchanged when it
\* has at most CHARACTER_LIMIT characters, and otherwise its first
\* CHARACTER_LIMIT characters followed by a notice stating the stored length;
\* the stored page is what it was before the read.
C12_GetTruncatesTheCopyOnly ==
  \A i \in Slots :
    (inv[i].tool = GetTool /\ Succeeded_(inv[i])) =>
      LET stored == inv[i].fetched.v.content.v
          out == inv[i].result.v.body.page.content.v
          k == FindById(wiki, inv[i].fetched.v.id)
      IN /\ StrLen(stored) <= CHARACTER_LIMIT => out = stored
         /\ StrLen(stored) > CHARACTER_LIMIT =>
              /\ EndsWithNotice(out, StrLen(stored))
              /\ SubSeq(out, 1, Len(out) - 1) = Substring0(stored, CHARACTER_LIMIT)
              /\ StrLen(SubSeq(out, 1, Len(out) - 1)) = CHARACTER_LIMIT
         /\ k # 0 /\ wiki[k].content = stored
C12_Witness ==
  \E i \in Slots :
    /\ inv[i].tool = GetTool /\ Succeeded_(inv[i])
    /\ IsSome(inv[i].args.id)
    /\ StrLen(inv[i].fetched.v.content.v) = CHARACTER_LIMIT + 1
    /\ StrLen(inv[i].result.v.body.page.content.v) = CHARACTER_LIMIT + 39 + 6 + 48
    /\ wiki = wiki0

MutatingTools ==
  {"wikijs_create_page", "wikijs_update_page", "wikijs_delete_page", "wikijs_move_page"}

\* C13: when the remote answers a create, update, delete or move with
\* responseResult.succeeded false, the handler returns a failure whose error
\* ends with the remote's message; a success is returned only after an answer
\* with succeeded true.
C13_RejectedOperationFails ==
  \A i \in Slots :
    (inv[i].tool \in MutatingTools /\ inv[i].pc = "done") =>
      /\ Succeeded_(inv[i]) =>
           IsSome(inv[i].remoteResult) /\ inv[i].remoteResult.v.succeeded
      /\ (IsSome(inv[i].remoteResult) /\ ~inv[i].remoteResult.v.succeeded) =>
           /\ Failed(inv[i])
           /\ LET e == inv[i].result.v.body.error
              IN e[Len(e)] = inv[i].remoteResult.v.message
C13_Witness ==
  \E i \in Slots :
    /\ inv[i].tool = "wikijs_delete_page" /\ Failed(inv[i])
    /\ inv[i].remoteResult = Some(Rejected("This page does not exist."))
    /\ LastCallOf(inv[i]).id = 9
    /\ inv[i].result.v.body.error = <<"Failed to delete page: ", "This page does not exist.">>

TimedOut(out) ==
  out # Undefined /\ ~out.ok /\ out.error.message = <<"Request timed out. Please try again.">>

\* C14: a query() call never takes longer than API_TIMEOUT: it is not
\* pending, and does not settle, after that time; and it fails with the
\* timeout error exactly when its timer fired on the pending request.
C14_QueryIsBoundedByTheTimeout ==
  /\ qry.elapsed <= API_TIMEOUT
  /\ TimedOut(qry.out) => qry.timer = "fired"

\* C15: once a response with a JSON body (or a failure status) is in,
\* query() returns the data exactly when the status is a success, the body
\* has no error list and data is present; a failure status fails as an HTTP
\* error with the status, whatever the body; an error list fails as a GraphQL
\* error, data or not; neither data nor errors fails as an empty response.
C15_QueryOutcomes ==
  (qry.pc = "settled" /\ qry.status # 0 /\ (StatusOk(qry.status) => qry.body.json)) =>
    LET ok == StatusOk(qry.status)
        hasErrors == qry.body.errors \in {"empty", "list"}
        hasData == qry.body.data = "present"
        prefix == "Wiki.js API request failed: "
    IN /\ qry.out.ok = (ok /\ ~hasErrors /\ hasData)
       /\ qry.out.ok => qry.out.value = "data"
       /\ ~ok => /\ qry.out.error.message = <<prefix, "HTTP error! status: ", ToString(qry.status)>>
                 /\ qry.body = NoBody
       /\ (ok /\ hasErrors) => SubSeq(qry.out.error.message, 1, 2) = <<prefix, "GraphQL Error: ">>
       /\ (ok /\ ~hasErrors /\ ~hasData) =>
            qry.out.error.message = <<prefix, "No data returned from GraphQL API">>
C15_Witness ==
  /\ qry.pc = "settled"
  /\ qry.status = 200
  /\ qry.body = [json |-> TRUE, data |-> "present", errors |-> "list"]
  /\ ~qry.out.ok
  /\ qry.out.error.message[2] = "GraphQL Error: "

\* what the remote stores of its pages
StoredPages(w) ==
  [k \in 1..Len(w) |->
     [id |-> w[k].id, content |-> w[k].content, tags |-> w[k].tags, title |-> w[k].title,
      description |-> w[k].description, isPublished |-> w[k].isPublished]]

\* C16: no step of an update_page that repeats the arguments of the
\* successful update_page before it changes what the remote stores.
C16_UpdateIsIdempotent ==
  [][\A i \in Slots :
       (/\ last.tool = UpdateTool /\ last.success
        /\ inv[i].tool = UpdateTool /\ inv[i].args = last.args)
         => StoredPages(wiki') = StoredPages(wiki)]_vars

\* C17: a get_page of the path and locale of the page the create_page before
\* it created returns the title, the content and the tags that were submitted.
C17_CreateThenGetRoundTrip ==
  \A i \in Slots :
    (/\ last.tool = "wikijs_create_page" /\ last.success
     /\ inv[i].tool = GetTool /\ Succeeded_(inv[i])) =>
      LET page == inv[i].result.v.body.page
      IN /\ page.title = last.args.title.v
         /\ page.content = last.args.content
         /\ "tags" \in DOMAIN page
         /\ page.tags = last.args.tags.v

\* the handler of slot i has been started and has not returned
Running(i) == inv[i].pc \notin {"idle", "done"}

\* C18: invocations are processed one at a time: no invocation is started
\* while another has not returned, so the remote calls of two invocations
\* never interleave.
C18_OneInvocationAtATime ==
  \A i, j \in DOMAIN inv : (i # j /\ Running(i)) => ~Running(j)

\* C19: no retries: an invocation has at most one request in flight and one
\* answer per request, calls no gateway operation twice, and a request that
\* failed is its last: with the failed answer the handler returns a failure.
C19_NoRetries ==
  \A i \in Slots :
    LET st == inv[i]
    IN /\ Len(st.replies) <= Len(st.calls) /\ Len(st.calls) <= Len(st.replies) + 1
       /\ (Len(st.calls) = Len(st.replies) + 1) = (st.pc \notin {"idle", "done"})
       /\ \A j, k \in 1..Len(st.calls) : j # k => st.calls[j].op # st.calls[k].op
       /\ \A k \in 1..Len(st.replies) :
            ~st.replies[k] => (k = Len(st.calls) /\ Failed(st))
C19_Witness ==
  \E i \in Slots :
    /\ inv[i].tool = UpdateTool /\ Failed(inv[i])
    /\ inv[i].replies = <<TRUE, FALSE>>
    /\ inv[i].calls[1].op = "getPageById" /\ inv[i].calls[2].op = "getAllPages"
    /\ inv[i].result.v.body.error = <<"Request timed out. Please try again.">>
    /\ wiki = wiki0

\* ------------------------------------------------------------ updates only
\* the wikis of Init, and the same wikis with page 1 answering the single and
\* singleByPath queries without a content value
WithoutContent(w) == [w EXCEPT ![FindById(w, 1)] = [@ EXCEPT !.hasContent = FALSE, !.content = <<>>]]
UpdateWikis == InitWikis \cup {WithoutContent(w) : w \in InitWikis}

InitUpdates ==
  /\ wiki \in UpdateWikis
  /\ wiki0 = wiki
  /\ inv = [i \in Slots |-> IdleInv]
  /\ started = 0
  /\ pg = PgOff
  /\ qry = QueryIdle
  /\ last = NoLast
  /\ proc = Serving

NextUpdates ==
  \E i \in Slots :
    \/ StartUpdatePage(i)
    \/ ReplyGetPageByPath(i)
    \/ ReplyGetPageById(i)
    \/ ReplyGetAllPages(i)
    \/ ReplyUpdatePage(i)
    \/ Deliver(i)

SpecUpdates == InitUpdates /\ [][NextUpdates]_vars

\* C20: every update mutation sent to the remote carries both a content field
\* and a tags field, whatever the caller's arguments and whatever the fetched
\* page and the listing hold.
C20_UpdateCarriesContentAndTags ==
  \A i \in Slots :
    UpdateSent(inv[i]) =>
      /\ IsSome(SentUpdate(inv[i]).content)
      /\ IsSome(SentUpdate(inv[i]).tags)

\* ------------------------------------------------------------ metadata updates
\* updates of page 1, by id or by path, with every combination of title,
\* description and isPublished supplied or left out
MetaIdentities ==
  {[id |-> Some(1), path |-> Undefined, locale |-> Undefined],
   [id |-> Undefined, path |-> Some(PathA), locale |-> Undefined]}
MetaUpdateInputs ==
  {idt @@ [title |-> t, description |-> d, isPublished |-> p, content |-> c, tags |-> Undefined] :
     idt \in MetaIdentities,
     t \in {Undefined, Some(<<>>), Some(Lit(<<"n">>))},
     d \in {Undefined, Some(<<>>)},
     p \in {Undefined, Some(FALSE), Some(TRUE)},
     c \in {Undefined, Some(Rep("b", 1))}}

\* the host invokes wikijs_update_page with a metadata change
StartUpdateMeta(i) ==
  /\ CanStart(i)
  /\ \E a \in MetaUpdateInputs : inv' = [inv EXCEPT ![i] = UpdateStart(a)]
  /\ started' = started + 1
  /\ UNCHANGED <<proc, last, qry, pg, wiki, wiki0>>

InitMeta ==
  /\ wiki = <<Page(1, PathA, En, Rep("a", 1), <<"x">>), Page(2, PathB, De, Rep("b", 1), <<"y">>)>>
  /\ wiki0 = wiki
  /\ inv = [i \in Slots |-> IdleInv]
  /\ started = 0
  /\ pg = PgOff
  /\ qry = QueryIdle
  /\ last = NoLast
  /\ proc = Serving

NextMeta ==
  \E i \in Slots :
    \/ StartUpdateMeta(i)
    \/ ReplyGetPageByPath(i)
    \/ ReplyGetPageById(i)
    \/ ReplyGetAllPages(i)
    \/ ReplyUpdatePage(i)
    \/ Deliver(i)

SpecMeta == InitMeta /\ [][NextMeta]_vars

\* C21: in update_page each of title, description and isPublished is in the
\* outgoing update mutation exactly when the caller supplied it, with the
\* supplied value, empty string and false included; a field the caller left
\* out is absent from the mutation, never filled in from the fetched page.
C21_MetadataPassesThrough ==
  \A i \in Slots :
    UpdateSent(inv[i]) =>
      /\ SentUpdate(inv[i]).title = inv[i].args.title
      /\ SentUpdate(inv[i]).description = inv[i].args.description
      /\ SentUpdate(inv[i]).isPublished = inv[i].args.isPublished
C21_Witness ==
  \E i \in Slots :
    /\ Succeeded_(inv[i]) /\ UpdateSent(inv[i])
    /\ inv[i].args.title = Some(<<>>)
    /\ inv[i].args.description = Undefined
    /\ inv[i].args.isPublished = Some(FALSE)
    /\ inv[i].args.content = Undefined
    /\ IsSome(inv[i].fetched)
    /\ SentUpdate(inv[i]).title = Some(<<>>)
    /\ SentUpdate(inv[i]).description = Undefined
    /\ SentUpdate(inv[i]).isPublished = Some(FALSE)
    /\ wiki[1].title = <<>> /\ wiki[1].description = Lit(<<"d">>) /\ ~wiki[1].isPublished

\* the arguments of an invocation that break a constraint of its schema
InvalidFields(st) ==
  LET a == st.args
      has(f) == f \in DOMAIN a /\ IsSome(a[f])
  IN IF st.tool = "none" THEN {}
     ELSE {f \in {"id"} : has(f) /\ (IsHalf(a[f]) \/ a[f].v <= 0)}
       \cup {f \in {"path"} : has(f) /\ a[f].v = <<>>}
       \cup {f \in {"limit"} : has(f) /\ (a[f].v < 1 \/ a[f].v > 200)}
       \cup {f \in {"offset"} : has(f) /\ a[f].v < 0}
       \cup {f \in {"query"} : has(f) /\ StrLen(a[f].v) < 2}
       \cup {f \in {"content"} : st.tool = "wikijs_create_page" /\ has(f) /\ a[f].v = <<>>}
\* the field paths an error message lists, one per "  - path: message" line
ListedPaths(error) == {error[k + 1] : k \in {j \in 1..(Len(error) - 1) : error[j] = "\n  - "}}

\* C22: when the arguments fail their schema the handler makes no gateway
\* call and returns a failure envelope whose error is the validation message
\* naming the tool and listing every failing field path; every other failure
\* is a single message without such a list.
C22_ValidationFailsBeforeAnyCall ==
  \A i \in Slots :
    LET st == inv[i]
        bad == InvalidFields(st)
    IN /\ bad # {} =>
            /\ st.calls = <<>> /\ Failed(st)
            /\ SubSeq(st.result.v.body.error, 1, 3) = <<"Validation error in ", st.tool, ":">>
            /\ ListedPaths(st.result.v.body.error) = bad
       /\ (bad = {} /\ Failed(st)) =>
            /\ Head(st.result.v.body.error) # "Validation error in "
            /\ ListedPaths(st.result.v.body.error) = {}
C22_Witness ==
  \E i \in Slots :
    /\ inv[i].tool = ListTool /\ Failed(inv[i]) /\ inv[i].calls = <<>>
    /\ inv[i].args.limit = Some(MAX_PAGE_LIMIT + 1) /\ inv[i].args.offset = Some(0 - 1)
    /\ inv[i].result.v.body.error =
         <<"Validation error in ", "wikijs_list_pages", ":",
           "\n  - ", "limit", ": ", "Number must be less than or equal to 200",
           "\n  - ", "offset", ": ", "Number must be greater than or equal to 0">>
    /\ wiki = wiki0

ReadOnlyTools == {"wikijs_get_page", "wikijs_list_pages", "wikijs_search_pages"}
MutationOps == {"createPage", "updatePage", "deletePage", "movePage"}

\* C23: a step of a get_page, list_pages or search_pages invocation leaves
\* the remote wiki as it was, and such an invocation has sent no create,
\* update, delete or move mutation, whatever the remote answered.
C23_ReadOnlyToolsNeverMutate ==
  [][\A i \in Slots :
       (inv'[i] # inv[i] /\ inv'[i].tool \in ReadOnlyTools) =>
         /\ wiki' = wiki
         /\ \A k \in 1..Len(inv'[i].calls) : inv'[i].calls[k].op \notin MutationOps]_vars
C23_Witness ==
  \E i \in Slots :
    /\ inv[i].tool \in ReadOnlyTools /\ Succeeded_(inv[i])
    /\ inv[i].calls # <<>> /\ inv[i].replies = <<TRUE>>
    /\ started = MaxInvocations
    /\ wiki # wiki0

\* ------------------------------------------------------------ index.ts: the process
\* the most signals and error events one behaviour delivers
MaxEvents == 3
\* process.env.X after dotenv.config(): unset, set to "", or set
EnvValues == {Undefined, Some(<<>>), Some(<<"u">>)}
ShutdownEvents == {"SIGINT", "SIGTERM", "uncaughtException", "unhandledRejection"}
\* the process as node starts evaluating index.ts
Booting(url, token) ==
  [Serving EXCEPT !.pc = "boot", !.url = url, !.token = token, !.clientBuilt = FALSE,
                  !.toolsRegistered = FALSE, !.handlersInstalled = FALSE, !.connectCalled = FALSE]
\* process.exit(code)
Exit(p, code) == [p EXCEPT !.pc = "exited", !.exitCode = Some(code)]
\* the process has not exited
Alive == proc.pc # "exited"

\* the environment check looking at the URL only
ValidateEnvUrlOnly(p) ==
  IF FalsyStr(p.url) THEN Exit(p, 1) ELSE [p EXCEPT !.pc = "validated"]
\* if (!WIKIJS_API_URL || !WIKIJS_API_TOKEN) { ...; process.exit(1) }
ValidateEnv(p) ==
  IF FalsyStr(p.url) \/ FalsyStr(p.token) THEN Exit(p, 1) ELSE [p EXCEPT !.pc = "validated"]

\* shutdown(signal) calling server.close() on every event
shutdownUnguarded(p) ==
  [p EXCEPT !.isShuttingDown = TRUE, !.closeCalls = @ + 1, !.closing = "pending"]
\* shutdown(signal) up to `await server.close()`
shutdown(p) ==
  IF p.isShuttingDown THEN [p EXCEPT !.ignored = @ + 1]
  ELSE [p EXCEPT !.isShuttingDown = TRUE, !.closeCalls = @ + 1, !.closing = "pending"]

CheckEnvironment ==
  /\ proc.pc = "boot"
  /\ proc' = ValidateEnv(proc)
  /\ UNCHANGED <<wiki, wiki0, inv, started, pg, qry, last>>
\* const wikiClient = new WikiJsClient(...); const server = new McpServer(...)
ConstructClient ==
  /\ proc.pc = "validated"
  /\ proc' = [proc EXCEPT !.pc = "constructed", !.clientBuilt = TRUE]
  /\ UNCHANGED <<wiki, wiki0, inv, started, pg, qry, last>>
\* the seven server.tool(...) registrations
RegisterTools ==
  /\ proc.pc = "constructed"
  /\ proc' = [proc EXCEPT !.pc = "registered", !.toolsRegistered = TRUE]
  /\ UNCHANGED <<wiki, wiki0, inv, started, pg, qry, last>>
\* the four process.on(...) registrations, then main() up to `await server.connect(transport)`
InstallHandlersAndConnect ==
  /\ proc.pc = "registered"
  /\ proc' = [proc EXCEPT !.pc = "connecting", !.handlersInstalled = TRUE, !.connectCalled = TRUE]
  /\ UNCHANGED <<wiki, wiki0, inv, started, pg, qry, last>>
\* server.connect(transport) resolves
ConnectResolves ==
  /\ proc.pc = "connecting"
  /\ proc' = [proc EXCEPT !.pc = "serving"]
  /\ UNCHANGED <<wiki, wiki0, inv, started, pg, qry, last>>
\* server.connect(transport) rejects: main().catch(...) exits with 1
ConnectRejects ==
  /\ proc.pc = "connecting"
  /\ proc' = Exit(proc, 1)
  /\ UNCHANGED <<wiki, wiki0, inv, started, pg, qry, last>>
\* SIGINT, SIGTERM, uncaughtException or unhandledRejection reaches its handler
ShutdownEvent(signal) ==
  /\ Alive /\ proc.handlersInstalled
  /\ proc.events < MaxEvents
  /\ proc' = [shutdown(proc) EXCEPT !.events = @ + 1]
  /\ UNCHANGED <<wiki, wiki0, inv, started, pg, qry, last>>
\* server.close() resolves: process.exit(0)
CloseResolves ==
  /\ Alive /\ proc.closing = "pending"
  /\ proc' = Exit([proc EXCEPT !.closing = "done"], 0)
  /\ UNCHANGED <<wiki, wiki0, inv, started, pg, qry, last>>
\* server.close() rejects: process.exit(1)
CloseRejects ==
  /\ Alive /\ proc.closing = "pending"
  /\ proc' = Exit([proc EXCEPT !.closing = "done"], 1)
  /\ UNCHANGED <<wiki, wiki0, inv, started, pg, qry, last>>
\* the connected transport hands a wikijs_get_page request to its handler
ServeGetPage(i) == Alive /\ proc.pc = "serving" /\ StartGetPage(i)
\* the handler of a served request goes on while the process lives
ServeReply(i) == Alive /\ (ReplyGetPageByPath(i) \/ ReplyGetPageById(i))
ServeDeliver(i) == Alive /\ Deliver(i)

InitProcess ==
  /\ wiki = <<Page(1, PathA, En, Rep("a", 1), <<"x">>), Page(2, PathB, De, Rep("b", 1), <<"y">>)>>
  /\ wiki0 = wiki
  /\ inv = [i \in Slots |-> IdleInv]
  /\ started = 0
  /\ pg = PgOff
  /\ qry = QueryIdle
  /\ last = NoLast
  /\ \E url \in EnvValues, token \in EnvValues : proc = Booting(url, token)

NextProcess ==
  \/ CheckEnvironment
  \/ ConstructClient
  \/ RegisterTools
  \/ InstallHandlersAndConnect
  \/ ConnectResolves
  \/ ConnectRejects
  \/ \E signal \in ShutdownEvents : ShutdownEvent(signal)
  \/ CloseResolves
  \/ CloseRejects
  \/ \E i \in Slots : ServeGetPage(i) \/ ServeReply(i) \/ ServeDeliver(i)

SpecProcess == InitProcess /\ [][NextProcess]_vars

\* C24: when WIKIJS_API_URL or WIKIJS_API_TOKEN is missing the process exits
\* with code 1 as its first step: the client is never constructed, no tool is
\* registered, the transport is never connected, no invocation is served.
C24_MissingEnvironmentIsFatal ==
  (FalsyStr(proc.url) \/ FalsyStr(proc.token)) =>
    /\ ~proc.clientBuilt /\ ~proc.toolsRegistered /\ ~proc.connectCalled
    /\ proc.pc \in {"boot", "exited"}
    /\ proc.pc = "exited" => proc.exitCode = Some(1)
    /\ started = 0 /\ \A i \in Slots : inv[i] = IdleInv
C24_Witness ==
  /\ proc.pc = "exited" /\ proc.exitCode = Some(1)
  /\ proc.url = Some(<<"u">>) /\ proc.token = Undefined
  /\ ~proc.clientBuilt /\ ~proc.handlersInstalled

\* C30: whatever signals and error events arrive, and whenever, also while a
\* shutdown is in progress, server.close() is called at most once, and
\* isShuttingDown, once set, stays set.
C30_ShutdownClosesOnce ==
  [][/\ proc'.closeCalls <= 1
     /\ proc.isShuttingDown => proc'.isShuttingDown]_vars
C30_Witness ==
  /\ proc.isShuttingDown /\ proc.closeCalls = 1 /\ proc.closing = "pending"
  /\ proc.events = MaxEvents /\ proc.ignored = MaxEvents - 1
  /\ Alive

\* the place of each request in handleUpdatePage
UpdateOrder == [getPageByPath |-> 1, getPageById |-> 2, getAllPages |-> 3, updatePage |-> 4]

\* C25: an update_page invocation sends its requests one after the other, in
\* the order fetch by path, fetch by id, listing, update mutation, never two
\* at a time; the mutation is sent at most once, as the last request, and
\* only when every request before it succeeded.
C25_UpdateCallsAreSequential ==
  \A i \in Slots :
    inv[i].tool = UpdateTool =>
      LET c == inv[i].calls
          r == inv[i].replies
      IN /\ \A k \in 1..Len(c) : c[k].op \in DOMAIN UpdateOrder
         /\ \A j, k \in 1..Len(c) : j < k => UpdateOrder[c[j].op] < UpdateOrder[c[k].op]
         /\ Len(r) <= Len(c) /\ Len(c) <= Len(r) + 1
         /\ \A k \in 1..Len(c) :
              c[k].op = "updatePage" => (k = Len(c) /\ \A j \in 1..(k - 1) : r[j])
C25_Witness ==
  \E i \in Slots :
    /\ inv[i].tool = UpdateTool /\ Succeeded_(inv[i])
    /\ Len(inv[i].calls) = 3 /\ inv[i].replies = <<TRUE, TRUE, TRUE>>
    /\ inv[i].calls[1].op = "getPageById"
    /\ inv[i].calls[2].op = "getAllPages"
    /\ inv[i].calls[3].op = "updatePage"

\* an update_page invocation that names its page by path only and leaves
\* the content out
PathUpdateKeepingContent(st) ==
  /\ st.tool = UpdateTool /\ st.calls # <<>>
  /\ ~IsSome(st.args.id) /\ IsSome(st.args.path) /\ st.args.content = Undefined

\* C26: a path-based update_page with content omitted fetches the page once,
\* by its path and locale, never by id, and the content it submits is the
\* content that fetch returned.
C26_PathUpdateReusesFetchedPage ==
  \A i \in Slots :
    PathUpdateKeepingContent(inv[i]) =>
      LET c == inv[i].calls
      IN /\ c[1].op = "getPageByPath"
         /\ c[1].vars = [path |-> inv[i].args.path.v, locale |-> inv[i].args.locale.v]
         /\ \A k \in 2..Len(c) : c[k].op \notin {"getPageByPath", "getPageById"}
         /\ UpdateSent(inv[i]) =>
              /\ IsSome(inv[i].fetched)
              /\ SentUpdate(inv[i]).content = TruncateByPath(inv[i].fetched.v.content)
              /\ SentUpdate(inv[i]).content = inv[i].currentPage.v.content
C26_Witness ==
  \E i \in Slots :
    /\ PathUpdateKeepingContent(inv[i]) /\ Succeeded_(inv[i])
    /\ inv[i].args.path = Some(PathA) /\ inv[i].args.tags = Some(<<"y">>)
    /\ Len(inv[i].calls) = 2 /\ inv[i].calls[2].op = "updatePage"
    /\ SentUpdate(inv[i]).content = Some(Rep("a", CHARACTER_LIMIT))
    /\ wiki[FindById(wiki, 1)].content = Rep("a", CHARACTER_LIMIT)

\* an invocation of get_page, update_page, delete_page or move_page that
\* passed validation and was given an id
ById(st) ==
  /\ st.tool \in {GetTool, UpdateTool, "wikijs_delete_page", "wikijs_move_page"}
  /\ IsSome(st.args.id) /\ InvalidFields(st) = {}

\* C27: with an id supplied, with or without a path, get_page, update_page,
\* delete_page and move_page never fetch by path and address every request
\* to that id; delete_page and move_page send one request only, the mutation.
C27_SuppliedIdIsUsedDirectly ==
  \A i \in Slots :
    ById(inv[i]) =>
      LET c == inv[i].calls
      IN /\ c # <<>>
         /\ \A k \in 1..Len(c) :
              /\ c[k].op # "getPageByPath"
              /\ "id" \in DOMAIN c[k].vars => c[k].vars.id = inv[i].args.id.v
         /\ inv[i].tool = GetTool => (Len(c) = 1 /\ c[1].op = "getPageById")
         /\ inv[i].tool = "wikijs_delete_page" => (Len(c) = 1 /\ c[1].op = "deletePage")
         /\ inv[i].tool = "wikijs_move_page" => (Len(c) = 1 /\ c[1].op = "movePage")
         /\ inv[i].tool \in {GetTool, "wikijs_delete_page", "wikijs_move_page"} =>
              "id" \in DOMAIN c[1].vars
C27_Witness ==
  \E i \in Slots :
    /\ inv[i].tool = "wikijs_delete_page" /\ Succeeded_(inv[i])
    /\ inv[i].args.id = Some(1) /\ inv[i].args.path = Some(PathZ)
    /\ inv[i].calls = <<[op |-> "deletePage", vars |-> [id |-> 1]]>>
    /\ FindById(wiki, 1) = 0 /\ FindById(wiki0, 1) # 0

\* C28: update_page by id with content omitted, when the fetch by id is
\* answered with no page, returns a failure saying the page was not found,
\* having sent neither the listing request nor the update mutation.
C28_UpdateOfMissingIdFails ==
  \A i \in Slots :
    LET st == inv[i]
    IN (/\ st.tool = UpdateTool /\ ById(st) /\ st.args.content = Undefined
        /\ st.replies = <<TRUE>> /\ st.fetched = Null) =>
         /\ Failed(st)
         /\ st.result.v.body.error = <<"Page not found with ID: ", ToString(st.args.id.v)>>
         /\ Len(st.calls) = 1 /\ st.calls[1].op = "getPageById"
C28_Witness ==
  \E i \in Slots :
    /\ inv[i].tool = UpdateTool /\ Failed(inv[i])
    /\ inv[i].args.id = Some(9) /\ inv[i].args.content = Undefined
    /\ inv[i].args.tags = Undefined
    /\ inv[i].fetched = Null /\ inv[i].replies = <<TRUE>>
    /\ inv[i].result.v.body.error = <<"Page not found with ID: ", "9">>
    /\ FindById(wiki, 9) = 0

\* ------------------------------------------------------------ overlapping updates
\* updates of page 1: title only, by id or by path, and new content with tags
OverlapInputs ==
  {[id |-> Some(1), path |-> Undefined, locale |-> Undefined, title |-> Some(Lit(<<"n">>)),
    description |-> Undefined, isPublished |-> Undefined, content |-> Undefined,
    tags |-> Some(<<"x">>)],
   [id |-> Undefined, path |-> Some(PathA), locale |-> Undefined, title |-> Undefined,
    description |-> Undefined, isPublished |-> Some(FALSE), content |-> Undefined,
    tags |-> Undefined],
   [id |-> Some(1), path |-> Undefined, locale |-> Undefined, title |-> Undefined,
    description |-> Undefined, isPublished |-> Undefined, content |-> Some(Rep("b", 1)),
    tags |-> Some(<<"x">>)]}

\* the host invokes wikijs_update_page, possibly while another invocation waits
StartOverlappingUpdate(i) ==
  /\ CanStart(i)
  /\ \E a \in OverlapInputs : inv' = [inv EXCEPT ![i] = UpdateStart(a)]
  /\ started' = started + 1
  /\ UNCHANGED <<proc, last, qry, pg, wiki, wiki0>>

InitOverlap ==
  /\ wiki = <<Page(1, PathA, En, Rep("a", 1), <<"x">>), Page(2, PathB, De, Rep("b", 1), <<"y">>)>>
  /\ wiki0 = wiki
  /\ inv = [i \in ConcSlots |-> IdleInv]
  /\ started = 0
  /\ pg = PgOff
  /\ qry = QueryIdle
  /\ last = NoLast
  /\ proc = Serving

NextOverlap ==
  \E i \in ConcSlots :
    \/ StartOverlappingUpdate(i)
    \/ ReplyGetPageByPath(i)
    \/ ReplyGetPageById(i)
    \/ ReplyGetAllPages(i)
    \/ ReplyUpdatePage(i)

SpecOverlap == InitOverlap /\ [][NextOverlap]_vars

\* C29: when a metadata-only update_page (content omitted) and an update_page
\* supplying new content for the same page have both completed, the stored
\* content is the newly supplied content: the metadata-only update has not
\* written an older content over it.
C29_NoLostUpdate ==
  \A i, j \in ConcSlots :
    (/\ i # j /\ Succeeded_(inv[i]) /\ Succeeded_(inv[j])
     /\ inv[i].args.content = Undefined /\ IsSome(inv[j].args.content)) =>
      wiki[FindById(wiki, 1)].content = inv[j].args.content.v

====
